---------------------------- MODULE Spec2Model ----------------------------
(***************************************************************************)
(* Dependency-aware incremental generation with content-addressed caching: *)
(* the filter-chain cache (cache keys, reusable point, generation plan,    *)
(* invalidation), the layered filter page that executes a plan, and the    *)
(* retrying grid / bridge executors.                                       *)
(*                                                                         *)
(* Arrays are sequences; the operators keep the 0-based indices of the     *)
(* JavaScript source (At, Slice).  Cache keys and texts are strings, built *)
(* with the same concatenations as the source.                             *)
(***************************************************************************)
EXTENDS Integers, Sequences, FiniteSets, TLC

VARIABLES
    pf_filters,   \* filterCacheManager: the activeFilters argument (top layer first)
    pf_other,     \* filterCacheManager: a second layer stack (its keys fill the cache)
    pf_cache,     \* filterCacheManager: the cache argument
    pf_ret,       \* filterCacheManager: the last call and what it returned
    fl_layers,    \* filter page: layers (React state), top layer first
    fl_session,   \* filter page: the cache of the session in the session store
    fl_cache,     \* filter page: cache (React state)
    fl_closure,   \* filter page: the cache bound in the memoized saveSessionAndRegenerate
    fl_loopCache, \* filter page: the cache bound in the running processGenerationQueue
    fl_queue,     \* filter page: generationQueueRef.current
    fl_isGenerating,  \* filter page: isGeneratingRef.current
    fl_abort,     \* filter page: abortControllerRef.current ("none", "live", "aborted")
    fl_inflight,  \* filter page: the task whose generator call is awaited
    fl_sent,      \* filter page: the requests sent to the generator so far
    fl_plan,      \* filter page: the plan of the last saveSessionAndRegenerate
    fl_event,     \* filter page: the last handler or continuation that ran
    fl_edits,     \* filter page: number of layer edits so far
    rn_feature,   \* generate pages: which page runs ("grid" or "bridge")
    rn_model,     \* generate pages: sessionData.selectedModel
    rn_existing,  \* generate pages: existingGenerations / existingPositions of the run
    rn_store,     \* generate pages: generations / positions in the session store
    rn_status,    \* generate pages: generationStatus (React state)
    rn_level,     \* generate pages: the ring or round being generated
    rn_rest,      \* generate pages: tasks of the level not yet put in a batch
    rn_batch,     \* generate pages: the tasks of the awaited Promise.all
    rn_attempts,  \* generate pages: generator calls issued and failed, per task
    rn_failures,  \* generate pages: generator failures so far
    rn_progress,  \* generate pages: progress.status in the session store
    rn_pc,        \* generate pages: where the run is ("mount", "batch", "delay", "done")
    gf_ret,       \* ringGenerator / bridgeGenerator: the last call and what it returned
    ex_memory,    \* explore page: usingMemoryFallback of the session manager
    ex_store,     \* explore page: generations of the session in the session store
    ex_total,     \* explore page: progress.totalGenerated in the session store
    ex_session,   \* explore page: session.generations (React state)
    ex_pending,   \* explore page: the generator calls awaited
    ex_moves,     \* explore page: number of moves of the circle so far
    ex_event,     \* explore page: the last handler or continuation that ran
    su_feature,   \* setup pages: which feature is used ("grid" or "bridge")
    su_session,   \* setup pages: the session in the session store (NoSession: none)
    su_created,   \* setup pages: the submitted inputs the stored session was created from
    su_origin,    \* setup pages: per stored text, the inputs of the request that returned it
    su_page,      \* setup pages: the page shown ("setup", "opening", "generate")
    su_runs,      \* setup pages: the run of the page shown (cur), the run of a page left (old)
    su_leaves,    \* setup pages: times a generate page was left so far
    su_responses, \* setup pages: generator responses so far
    su_errors,    \* setup pages: errors (React state) is not empty
    su_event,     \* setup pages: the last handler or continuation that ran
    bx_model,     \* bridge explore: selectedModel of the session
    bx_store,     \* bridge explore: positions of the session in the session store
    bx_session,   \* bridge explore: session.positions (React state), Null before the mount
    bx_run,       \* bridge explore: the run of the generate page, which goes on
    bx_pending,   \* bridge explore: the on-demand generator calls awaited
    bx_sent,      \* bridge explore: the on-demand requests sent so far, each with
                  \*   whether the session store held a text for its position
    bx_moves,     \* bridge explore: number of moves of the slider so far
    bx_failures,  \* bridge explore: generator failures so far
    ss_works,     \* session manager: sessionStorage is available in this browser
    ss_item,      \* session manager: the item of the session key in sessionStorage
    ss_memoryStore,   \* session manager: memoryStore
    ss_usingMemoryFallback,   \* session manager: usingMemoryFallback
    ss_storageWarningShown,   \* session manager: storageWarningShown
    ss_saved,     \* session manager: the data of the last saveSession (Null: cleared, none)
    ss_ret,       \* session manager: the last call and what it returned
    rt_feature,   \* retry loop: the page of the task ("grid" or "bridge")
    rt_model,     \* retry loop: selectedModel of the request
    rt_entry,     \* retry loop: attempt and phase of generateCoordinate / generatePosition
    rt_delay,     \* retry loop: the backoff delay awaited, in ms
    rt_status,    \* retry loop: generationStatus of the task
    rt_stored,    \* retry loop: a text was stored for the task
    rt_errors,    \* retry loop: what the provider answered to the failed attempts
    ap_filters,   \* filter stack page: filters (React state), by filter id
    ap_cache,     \* filter stack page: cache (React state)
    ap_store,     \* filter stack page: the cache of the session in the session store
    ap_isGenerating,        \* filter stack page: isGenerating
    ap_hasUnsavedChanges,   \* filter stack page: hasUnsavedChanges
    ap_run,       \* filter stack page: the applyFilterStack call that is awaiting a step
    ap_last,      \* filter stack page: the last request sent to the generator
    ap_done,      \* filter stack page: keys of the steps that succeeded in the last run
    ap_applies,   \* filter stack page: number of runs of applyFilterStack so far
    ap_edits,     \* filter stack page: number of edits of the filters so far
    ap_event      \* filter stack page: the last handler or continuation that ran

pfVars == <<pf_filters, pf_other, pf_cache, pf_ret>>

flVars == <<fl_layers, fl_session, fl_cache, fl_closure, fl_loopCache, fl_queue,
            fl_isGenerating, fl_abort, fl_inflight, fl_sent, fl_plan, fl_event,
            fl_edits>>

rnVars == <<rn_feature, rn_model, rn_existing, rn_store, rn_status, rn_level,
            rn_rest, rn_batch, rn_attempts, rn_failures, rn_progress, rn_pc>>

exVars == <<ex_memory, ex_store, ex_total, ex_session, ex_pending, ex_moves, ex_event>>

suVars == <<su_feature, su_session, su_created, su_origin, su_page, su_runs,
            su_leaves, su_responses, su_errors, su_event>>

bxVars == <<bx_model, bx_store, bx_session, bx_run, bx_pending, bx_sent, bx_moves,
            bx_failures>>

ssVars == <<ss_works, ss_item, ss_memoryStore, ss_usingMemoryFallback,
            ss_storageWarningShown, ss_saved, ss_ret>>

rtVars == <<rt_feature, rt_model, rt_entry, rt_delay, rt_status, rt_stored, rt_errors>>

apVars == <<ap_filters, ap_cache, ap_store, ap_isGenerating, ap_hasUnsavedChanges,
            ap_run, ap_last, ap_done, ap_applies, ap_edits, ap_event>>

vars == <<pfVars, flVars, rnVars, gf_ret, exVars, suVars, bxVars, ssVars, rtVars, apVars>>

---------------------------------------------------------------------------
(* Bounds of the model *)

MaxChain == 3        \* longest layer stack handed to the cache functions

MaxEdits == 4        \* layer or filter edits made on a filter page

LastRing == 1        \* outermost ring of the grid run (the page goes on to ring 5)

MaxMoves == 2        \* moves of the circle on the explore page

MaxFailures == 4     \* generator failures in one run

MaxLeaves == 1       \* times a generate page is left for the setup page

MaxResponses == 4    \* generator responses while sessions are replaced

MaxSlides == 2       \* moves of the slider on the bridge explore page

MaxDropped == 1      \* generator failures while the bridge is explored

MaxApplies == 2      \* runs of applyFilterStack on the filter stack page

---------------------------------------------------------------------------
(* JavaScript values *)

Undefined == "<undefined>"          \* what cache[key] yields for a missing key

At(arr, i) == arr[i + 1]            \* arr[i], 0-based

Slice(arr, start) == SubSeq(arr, start + 1, Len(arr))     \* arr.slice(start)

Reverse(arr) == [i \in 1..Len(arr) |-> arr[Len(arr) + 1 - i]]   \* [...arr].reverse()

Get(cache, key) == IF key \in DOMAIN cache THEN cache[key] ELSE Undefined

\* if (cache[key]) : the entry exists and is a non-empty string
Truthy(cache, key) ==
    key \in DOMAIN cache /\ cache[key] # "" /\ cache[key] # Undefined

RECURSIVE Join(_)
\* parts.join('|')
Join(parts) ==
    IF Len(parts) = 0 THEN ""
    ELSE IF Len(parts) = 1 THEN parts[1]
    ELSE Join(SubSeq(parts, 1, Len(parts) - 1)) \o "|" \o parts[Len(parts)]

---------------------------------------------------------------------------
(* filterCacheManager *)

\* Math.round(intensity / 25) * 25, for intensity >= 0
RoundedIntensity(intensity) == ((2 * intensity + 25) \div 50) * 25

\* `${f.id}-${roundedIntensity}`
FilterKey(f) == f.id \o "-" \o ToString(RoundedIntensity(f.intensity))

buildCacheKey_NoReverse(activeFilters) ==
    IF Len(activeFilters) = 0 THEN "original"
    ELSE Join([i \in 1..Len(activeFilters) |-> FilterKey(activeFilters[i])])

buildCacheKey(activeFilters) ==
    IF Len(activeFilters) = 0 THEN "original"
    ELSE LET reversedFilters == Reverse(activeFilters)
         IN  Join([i \in 1..Len(reversedFilters) |-> FilterKey(reversedFilters[i])])

getCacheKeyForStep(activeFilters, stepIndex) ==
    IF Len(activeFilters) = 0 \/ stepIndex < 0 THEN "original"
    ELSE buildCacheKey(Slice(activeFilters, stepIndex))

RECURSIVE ScanReusable(_, _, _)
\* the loop of findReusableSteps, entered at index i: it walks from the bottom
\* layer (last index) towards index 0 and stops at the first cached key
ScanReusable(newFilterChain, cache, i) ==
    IF i < 0
    THEN [reusableUpToIndex |-> Len(newFilterChain),
          cacheKey |-> "original",
          text |-> Get(cache, "original"),
          needsGenerationFromIndex |-> Len(newFilterChain) - 1]
    ELSE LET keyForThisStep == getCacheKeyForStep(newFilterChain, i)
         IN  IF Truthy(cache, keyForThisStep)
             THEN [reusableUpToIndex |-> i,
                   cacheKey |-> keyForThisStep,
                   text |-> cache[keyForThisStep],
                   needsGenerationFromIndex |-> i - 1]
             ELSE ScanReusable(newFilterChain, cache, i - 1)

findReusableSteps_IgnoresCache(newFilterChain, cache) ==
    [reusableUpToIndex |-> Len(newFilterChain),
     cacheKey |-> "original",
     text |-> Get(cache, "original"),
     needsGenerationFromIndex |-> Len(newFilterChain) - 1]

findReusableSteps(newFilterChain, cache) ==
    IF Len(newFilterChain) = 0
    THEN [reusableUpToIndex |-> Len(newFilterChain),
          cacheKey |-> "original",
          text |-> Get(cache, "original"),
          needsGenerationFromIndex |-> Len(newFilterChain)]
    ELSE ScanReusable(newFilterChain, cache, Len(newFilterChain) - 1)

RECURSIVE PlanFrom_TopFirstKey(_, _, _, _)
PlanFrom_TopFirstKey(activeFilters, i, previousKey, currentText) ==
    IF i < 0 THEN <<>>
    ELSE LET filter == At(activeFilters, i)
             roundedIntensity == RoundedIntensity(filter.intensity)
             filterKey == filter.id \o "-" \o ToString(roundedIntensity)
             cacheKey == IF previousKey = "original" THEN filterKey
                         ELSE filterKey \o "|" \o previousKey
         IN  <<[stepIndex |-> i,
                inputText |-> currentText,
                filterId |-> filter.id,
                intensity |-> roundedIntensity,
                cacheKey |-> cacheKey,
                previousKey |-> previousKey]>>
             \o PlanFrom_TopFirstKey(activeFilters, i - 1, cacheKey, currentText)

RECURSIVE PlanFrom(_, _, _, _)
\* the loop of calculateGenerationPlan, entered at index i with previousKey
PlanFrom(activeFilters, i, previousKey, currentText) ==
    IF i < 0 THEN <<>>
    ELSE LET filter == At(activeFilters, i)
             roundedIntensity == RoundedIntensity(filter.intensity)
             filterKey == filter.id \o "-" \o ToString(roundedIntensity)
             cacheKey == IF previousKey = "original" THEN filterKey
                         ELSE previousKey \o "|" \o filterKey
         IN  <<[stepIndex |-> i,
                inputText |-> currentText,
                filterId |-> filter.id,
                intensity |-> roundedIntensity,
                cacheKey |-> cacheKey,
                previousKey |-> previousKey]>>
             \o PlanFrom(activeFilters, i - 1, cacheKey, currentText)

calculateGenerationPlan(activeFilters, cache) ==
    IF Len(activeFilters) = 0 THEN <<>>
    ELSE LET reusable == findReusableSteps(activeFilters, cache)
         IN  PlanFrom(activeFilters, reusable.needsGenerationFromIndex,
                      reusable.cacheKey, reusable.text)

RECURSIVE InvalidatedFrom(_, _, _, _)
\* the loop of getInvalidatedCacheKeys, entered at index i
InvalidatedFrom(activeFilters, changedIndex, cache, i) ==
    IF i > changedIndex THEN <<>>
    ELSE LET key == getCacheKeyForStep(activeFilters, i)
         IN  (IF Truthy(cache, key) THEN <<key>> ELSE <<>>)
             \o InvalidatedFrom(activeFilters, changedIndex, cache, i + 1)

getInvalidatedCacheKeys(activeFilters, changedIndex, cache) ==
    InvalidatedFrom(activeFilters, changedIndex, cache, 0)

RECURSIVE clearInvalidatedCache_DeletesOriginal(_, _)
clearInvalidatedCache_DeletesOriginal(cache, keysToInvalidate) ==
    IF Len(keysToInvalidate) = 0 THEN cache
    ELSE LET key == Head(keysToInvalidate)
         IN  clearInvalidatedCache_DeletesOriginal(
                 [k \in DOMAIN cache \ {key} |-> cache[k]], Tail(keysToInvalidate))

RECURSIVE clearInvalidatedCache(_, _)
clearInvalidatedCache(cache, keysToInvalidate) ==
    IF Len(keysToInvalidate) = 0 THEN cache
    ELSE LET key == Head(keysToInvalidate)
             newCache == IF key # "original"
                         THEN [k \in DOMAIN cache \ {key} |-> cache[k]]
                         ELSE cache
         IN  clearInvalidatedCache(newCache, Tail(keysToInvalidate))

estimateApiCalls(activeFilters, cache) ==
    Len(calculateGenerationPlan(activeFilters, cache))


---------------------------------------------------------------------------
(* Inputs of the filterCacheManager calls *)

\* layers handed to the cache functions: ids of AVAILABLE_FILTERS with slider
\* intensities, and one intensity that is not a multiple of 25
LayerInputs ==
    { [id |-> "simplify",  intensity |-> 50],
      [id |-> "formalize", intensity |-> 75],
      [id |-> "humor",     intensity |-> 75],
      [id |-> "humor",     intensity |-> 60],
      [id |-> "elaborate", intensity |-> 50] }

DistinctIds(chain) ==
    \A i, j \in 1..Len(chain) : i # j => chain[i].id # chain[j].id

\* layer stacks, top layer first; a filter is in the stack at most once
Chains ==
    UNION { {c \in [1..n -> LayerInputs] : DistinctIds(c)} : n \in 0..MaxChain }

OriginalText == "T"

\* a text that names the key it is stored under
TextOf(key) == "<" \o key \o ">"

\* the cumulative keys of a stack: one per layer, layer i with all layers below it
StepKeys(chain) == { getCacheKeyForStep(chain, i) : i \in 0..(Len(chain) - 1) }

CacheOf(keys) ==
    [k \in keys \cup {"original"} |->
        IF k = "original" THEN OriginalText ELSE TextOf(k)]

\* the number of layers, counted from the bottom, on which two stacks agree
\* (same filter, same rounded intensity)
CommonPrefix(a, b) ==
    LET Same(k) == \A j \in 0..(k - 1) :
                       FilterKey(a[Len(a) - j]) = FilterKey(b[Len(b) - j])
        lens == { k \in 0..Len(a) : k <= Len(b) /\ Same(k) }
    IN  CHOOSE k \in lens : \A m \in lens : m <= k

---------------------------------------------------------------------------
(* The filter page (pages/filters.js, layer version): state after handleInitialize *)

NoTask == [cacheKey |-> "<none>"]

EmptyCache == [k \in {} |-> ""]

PageIdle ==
    /\ fl_layers = <<>>
    /\ fl_session = CacheOf({})
    /\ fl_cache = CacheOf({})
    /\ fl_closure = EmptyCache
    /\ fl_loopCache = EmptyCache
    /\ fl_queue = <<>>
    /\ fl_isGenerating = FALSE
    /\ fl_abort = "none"
    /\ fl_inflight = NoTask
    /\ fl_sent = {}
    /\ fl_plan = <<>>
    /\ fl_event = [ev |-> "handleInitialize"]
    /\ fl_edits = 0

RunIdle ==
    /\ rn_feature = "none"
    /\ rn_model = "none"
    /\ rn_existing = EmptyCache
    /\ rn_store = EmptyCache
    /\ rn_status = EmptyCache
    /\ rn_level = 0
    /\ rn_rest = <<>>
    /\ rn_batch = EmptyCache
    /\ rn_attempts = EmptyCache
    /\ rn_failures = 0
    /\ rn_progress = "none"
    /\ rn_pc = "idle"

ExploreIdle ==
    /\ ex_memory = FALSE
    /\ ex_store = EmptyCache
    /\ ex_total = 0
    /\ ex_session = EmptyCache
    /\ ex_pending = {}
    /\ ex_moves = 0
    /\ ex_event = [ev |-> "none"]

NoCall == [op |-> "none"]

NoSession == [none |-> TRUE]

NoRun == [pc |-> "none"]

ApplyIdle ==
    /\ ap_filters = <<>>
    /\ ap_cache = EmptyCache
    /\ ap_store = EmptyCache
    /\ ap_isGenerating = FALSE
    /\ ap_hasUnsavedChanges = FALSE
    /\ ap_run = NoRun
    /\ ap_last = NoTask
    /\ ap_done = {}
    /\ ap_applies = 0
    /\ ap_edits = 0
    /\ ap_event = [ev |-> "none"]

RetryIdle ==
    /\ rt_feature = "none"
    /\ rt_model = "none"
    /\ rt_entry = [phase |-> "none"]
    /\ rt_delay = 0
    /\ rt_status = "none"
    /\ rt_stored = FALSE
    /\ rt_errors = <<>>

StoreIdle ==
    /\ ss_works = FALSE
    /\ ss_item = <<>>
    /\ ss_memoryStore = <<>>
    /\ ss_usingMemoryFallback = FALSE
    /\ ss_storageWarningShown = FALSE
    /\ ss_saved = <<>>
    /\ ss_ret = [op |-> "none"]

BridgeExploreIdle ==
    /\ bx_model = "none"
    /\ bx_store = EmptyCache
    /\ bx_session = <<>>
    /\ bx_run = NoRun
    /\ bx_pending = {}
    /\ bx_sent = {}
    /\ bx_moves = 0
    /\ bx_failures = 0

SetupIdle ==
    /\ su_feature = "none"
    /\ su_session = NoSession
    /\ su_created = NoCall
    /\ su_origin = EmptyCache
    /\ su_page = "none"
    /\ su_runs = [cur |-> NoRun, old |-> NoRun]
    /\ su_leaves = 0
    /\ su_responses = 0
    /\ su_errors = FALSE
    /\ su_event = [ev |-> "none"]

InitPlan ==
    /\ pf_filters \in Chains
    /\ \/ /\ pf_other = <<>>
          /\ \E keys \in SUBSET StepKeys(pf_filters) : pf_cache = CacheOf(keys)
       \/ /\ pf_other \in Chains
          /\ CommonPrefix(pf_filters, pf_other) >= 1
          /\ pf_cache = CacheOf(StepKeys(pf_other))
    /\ pf_ret = NoCall
    /\ PageIdle
    /\ gf_ret = NoCall
    /\ ExploreIdle
    /\ SetupIdle
    /\ BridgeExploreIdle
    /\ StoreIdle
    /\ RetryIdle
    /\ ApplyIdle
    /\ RunIdle

CallBuildCacheKey ==
    /\ pf_ret' = [op |-> "buildCacheKey", val |-> buildCacheKey(pf_filters)]
    /\ UNCHANGED <<pf_filters, pf_other, pf_cache, flVars, rnVars, gf_ret, exVars, suVars, bxVars, ssVars, rtVars, apVars>>

CallGetCacheKeyForStep ==
    \E stepIndex \in -1..(Len(pf_filters) - 1) :
        /\ pf_ret' = [op |-> "getCacheKeyForStep", stepIndex |-> stepIndex,
                      val |-> getCacheKeyForStep(pf_filters, stepIndex)]
        /\ UNCHANGED <<pf_filters, pf_other, pf_cache, flVars, rnVars, gf_ret, exVars, suVars, bxVars, ssVars, rtVars, apVars>>

CallFindReusableSteps ==
    /\ pf_ret' = [op |-> "findReusableSteps",
                  val |-> findReusableSteps(pf_filters, pf_cache)]
    /\ UNCHANGED <<pf_filters, pf_other, pf_cache, flVars, rnVars, gf_ret, exVars, suVars, bxVars, ssVars, rtVars, apVars>>

CallCalculateGenerationPlan ==
    /\ pf_ret' = [op |-> "calculateGenerationPlan",
                  val |-> calculateGenerationPlan(pf_filters, pf_cache)]
    /\ UNCHANGED <<pf_filters, pf_other, pf_cache, flVars, rnVars, gf_ret, exVars, suVars, bxVars, ssVars, rtVars, apVars>>

\* every key of the plan just computed is written to the cache
StorePlanResults ==
    /\ pf_ret.op = "calculateGenerationPlan"
    /\ Len(pf_ret.val) > 0
    /\ LET written == { pf_ret.val[n].cacheKey : n \in 1..Len(pf_ret.val) }
       IN  pf_cache' = [k \in DOMAIN pf_cache \cup written |->
                           IF k \in written THEN TextOf(k) ELSE pf_cache[k]]
    /\ pf_ret' = [op |-> "stored", val |-> pf_ret.val]
    /\ UNCHANGED <<pf_filters, pf_other, flVars, rnVars, gf_ret, exVars, suVars, bxVars, ssVars, rtVars, apVars>>

CallGetInvalidatedCacheKeys ==
    \E changedIndex \in 0..(Len(pf_filters) - 1) :
        /\ pf_ret' = [op |-> "getInvalidatedCacheKeys", changedIndex |-> changedIndex,
                      val |-> getInvalidatedCacheKeys(pf_filters, changedIndex, pf_cache)]
        /\ UNCHANGED <<pf_filters, pf_other, pf_cache, flVars, rnVars, gf_ret, exVars, suVars, bxVars, ssVars, rtVars, apVars>>

\* the lists handed to clearInvalidatedCache: what getInvalidatedCacheKeys
\* returned, 'original' alone, a key that is not cached, and mixtures
ClearInputs ==
    LET lists == { getInvalidatedCacheKeys(pf_filters, ci, pf_cache) :
                      ci \in 0..(Len(pf_filters) - 1) }
    IN  lists \cup { <<"original">> \o l : l \in lists }
              \cup { l \o <<"casual-25">> : l \in lists }
              \cup { <<"original">>, <<>> }

CallClearInvalidatedCache ==
    \E keysToInvalidate \in ClearInputs :
        /\ pf_cache' = clearInvalidatedCache(pf_cache, keysToInvalidate)
        /\ pf_ret' = [op |-> "clearInvalidatedCache", cache |-> pf_cache,
                      keysToInvalidate |-> keysToInvalidate,
                      val |-> clearInvalidatedCache(pf_cache, keysToInvalidate)]
        /\ UNCHANGED <<pf_filters, pf_other, flVars, rnVars, gf_ret, exVars, suVars, bxVars, ssVars, rtVars, apVars>>

NextPlan ==
    \/ CallBuildCacheKey
    \/ CallGetCacheKeyForStep
    \/ CallFindReusableSteps
    \/ CallCalculateGenerationPlan
    \/ StorePlanResults
    \/ CallGetInvalidatedCacheKeys
    \/ CallClearInvalidatedCache

SpecPlan == InitPlan /\ [][NextPlan]_vars

---------------------------------------------------------------------------
(* The filter page (pages/filters.js, layer version): handlers *)

\* the filters offered on the page (a subset of AVAILABLE_FILTERS)
PageFilters == {"simplify", "humor"}

DefaultIntensity == 50

\* the slider positions used (min 25, max 100, step 25)
SliderIntensities == {50, 75}

\* the external TextGenerator: the text produced for a filter request
Generate(inputText, filterId, intensity) ==
    inputText \o ">" \o filterId \o "-" \o ToString(intensity)

ActiveLayers_KeepsDisabled(layers) == layers

\* newLayers.filter(l => l.enabled)
ActiveLayers(layers) == SelectSeq(layers, LAMBDA l : l.enabled)

\* affectedLayerIds of a plan step
LayerIds(activeLayers, stepIndex) ==
    [n \in 1..(Len(activeLayers) - stepIndex) |-> activeLayers[stepIndex + n].id]

\* the queue built from a plan: { ...step, layerIds }
QueueOf(plan, activeLayers) ==
    [n \in 1..Len(plan) |->
        [stepIndex |-> plan[n].stepIndex,
         inputText |-> plan[n].inputText,
         filterId |-> plan[n].filterId,
         intensity |-> plan[n].intensity,
         cacheKey |-> plan[n].cacheKey,
         previousKey |-> plan[n].previousKey,
         layerIds |-> LayerIds(activeLayers, plan[n].stepIndex)]]

Put(cache, key, text) ==
    [k \in DOMAIN cache \cup {key} |-> IF k = key THEN text ELSE cache[k]]

Request(task) ==
    [cacheKey |-> task.cacheKey, inputText |-> task.inputText,
     filterId |-> task.filterId, intensity |-> task.intensity]

RECURSIVE RunLoop(_, _, _, _)
\* the while loop of processGenerationQueue up to its next await: tasks whose key
\* is cached (in the bound cache or in the session store) are skipped; the first
\* other task is sent to the generator
RunLoop(queue, cache, loopCache, session) ==
    IF Len(queue) = 0
    THEN [queue |-> <<>>, cache |-> cache, inflight |-> NoTask]
    ELSE LET task == Head(queue)
         IN  IF Truthy(loopCache, task.cacheKey) \/ Truthy(session, task.cacheKey)
             THEN RunLoop(Tail(queue),
                          IF Truthy(session, task.cacheKey) /\ ~Truthy(loopCache, task.cacheKey)
                          THEN Put(cache, task.cacheKey, session[task.cacheKey])
                          ELSE cache,
                          loopCache, session)
             ELSE [queue |-> Tail(queue), cache |-> cache, inflight |-> task]

PatchQueue_Off(queue, cacheKey, text) == queue

\* generationQueueRef.current.forEach: late binding of the inputs that were
\* waiting for this result
PatchQueue(queue, cacheKey, text) ==
    [n \in 1..Len(queue) |->
        IF queue[n].previousKey = cacheKey
        THEN [queue[n] EXCEPT !.inputText = text]
        ELSE queue[n]]

saveSessionAndRegenerate_SecondLoop(newLayers, event) ==
    LET currentCache == fl_session
        activeLayers == ActiveLayers(newLayers)
        plan == calculateGenerationPlan(activeLayers, currentCache)
        queue == QueueOf(plan, activeLayers)
    IN  /\ fl_edits < MaxEdits
        /\ fl_edits' = fl_edits + 1
        /\ fl_layers' = newLayers
        /\ fl_event' = event
        /\ fl_plan' = plan
        /\ UNCHANGED <<fl_session, fl_closure>>
        /\ IF Len(queue) = 0
           THEN \* processGenerationQueue returns at once
                /\ fl_queue' = queue
                /\ fl_cache' = currentCache
                /\ fl_abort' = IF fl_abort = "none" THEN "none" ELSE "aborted"
                /\ UNCHANGED <<fl_isGenerating, fl_inflight, fl_sent, fl_loopCache>>
           ELSE LET r == RunLoop(queue, currentCache, fl_closure, fl_session)
                IN  /\ fl_queue' = r.queue
                    /\ fl_cache' = r.cache
                    /\ fl_inflight' = r.inflight
                    /\ fl_sent' = IF r.inflight = NoTask THEN fl_sent
                                  ELSE fl_sent \cup {Request(r.inflight)}
                    /\ fl_isGenerating' = (r.inflight # NoTask)
                    /\ fl_abort' = IF r.inflight # NoTask THEN "live" ELSE "none"
                    /\ fl_loopCache' = IF r.inflight # NoTask THEN fl_closure
                                       ELSE EmptyCache

\* saveSessionAndRegenerate(newLayers), with the processGenerationQueue call at its end
saveSessionAndRegenerate(newLayers, event) ==
    LET currentCache == fl_session
        activeLayers == ActiveLayers(newLayers)
        plan == calculateGenerationPlan(activeLayers, currentCache)
        queue == QueueOf(plan, activeLayers)
    IN  /\ fl_edits < MaxEdits
        /\ fl_edits' = fl_edits + 1
        /\ fl_layers' = newLayers
        /\ fl_event' = event
        /\ fl_plan' = plan
        /\ UNCHANGED <<fl_session, fl_closure>>
        /\ IF fl_isGenerating \/ Len(queue) = 0
           THEN \* processGenerationQueue returns at once
                /\ fl_queue' = queue
                /\ fl_cache' = currentCache
                /\ fl_abort' = IF fl_abort = "none" THEN "none" ELSE "aborted"
                /\ UNCHANGED <<fl_isGenerating, fl_inflight, fl_sent, fl_loopCache>>
           ELSE LET r == RunLoop(queue, currentCache, fl_closure, fl_session)
                IN  /\ fl_queue' = r.queue
                    /\ fl_cache' = r.cache
                    /\ fl_inflight' = r.inflight
                    /\ fl_sent' = IF r.inflight = NoTask THEN fl_sent
                                  ELSE fl_sent \cup {Request(r.inflight)}
                    /\ fl_isGenerating' = (r.inflight # NoTask)
                    /\ fl_abort' = IF r.inflight # NoTask THEN "live" ELSE "none"
                    /\ fl_loopCache' = IF r.inflight # NoTask THEN fl_closure
                                       ELSE EmptyCache

HasLayer(id) == \E n \in 1..Len(fl_layers) : fl_layers[n].id = id

addLayer ==
    \E id \in PageFilters :
        /\ ~HasLayer(id)
        /\ saveSessionAndRegenerate(
               <<[id |-> id, enabled |-> TRUE, intensity |-> DefaultIntensity]>>
                   \o fl_layers,
               [ev |-> "addLayer", id |-> id])
        /\ UNCHANGED <<pfVars, rnVars, gf_ret, exVars, suVars, bxVars, ssVars, rtVars, apVars>>

removeLayer ==
    \E id \in PageFilters :
        /\ HasLayer(id)
        /\ saveSessionAndRegenerate(
               SelectSeq(fl_layers, LAMBDA l : l.id # id),
               [ev |-> "removeLayer", id |-> id])
        /\ UNCHANGED <<pfVars, rnVars, gf_ret, exVars, suVars, bxVars, ssVars, rtVars, apVars>>

toggleLayer ==
    \E id \in PageFilters :
        /\ HasLayer(id)
        /\ saveSessionAndRegenerate(
               [n \in 1..Len(fl_layers) |->
                   IF fl_layers[n].id = id
                   THEN [fl_layers[n] EXCEPT !.enabled = ~fl_layers[n].enabled]
                   ELSE fl_layers[n]],
               [ev |-> "toggleLayer", id |-> id])
        /\ UNCHANGED <<pfVars, rnVars, gf_ret, exVars, suVars, bxVars, ssVars, rtVars, apVars>>

\* the slider is shown for enabled layers only
changeLayerIntensity ==
    \E id \in PageFilters, intensity \in SliderIntensities :
        /\ \E n \in 1..Len(fl_layers) :
               /\ fl_layers[n].id = id
               /\ fl_layers[n].enabled
               /\ fl_layers[n].intensity # intensity
        /\ saveSessionAndRegenerate(
               [n \in 1..Len(fl_layers) |->
                   IF fl_layers[n].id = id
                   THEN [fl_layers[n] EXCEPT !.intensity = intensity]
                   ELSE fl_layers[n]],
               [ev |-> "changeLayerIntensity", id |-> id])
        /\ UNCHANGED <<pfVars, rnVars, gf_ret, exVars, suVars, bxVars, ssVars, rtVars, apVars>>

\* newLayers.splice(index, 1) then newLayers.splice(at, 0, layer), 0-based
MoveLayer(layers, index, at) ==
    LET without == SubSeq(layers, 1, index) \o SubSeq(layers, index + 2, Len(layers))
    IN  SubSeq(without, 1, at) \o <<layers[index + 1]>>
            \o SubSeq(without, at + 1, Len(without))

handleLayerDrop ==
    \E draggedLayer \in 0..(Len(fl_layers) - 1), dropIndex \in 0..(Len(fl_layers) - 1) :
        /\ draggedLayer # dropIndex
        /\ LET adjustedDropIndex == IF draggedLayer < dropIndex THEN dropIndex - 1
                                    ELSE dropIndex
           IN  saveSessionAndRegenerate(
                   MoveLayer(fl_layers, draggedLayer, adjustedDropIndex),
                   [ev |-> "handleLayerDrop", id |-> fl_layers[draggedLayer + 1].id])
        /\ UNCHANGED <<pfVars, rnVars, gf_ret, exVars, suVars, bxVars, ssVars, rtVars, apVars>>

\* the awaited generator call returns a text: cache write-through, late binding,
\* then the loop goes on to its next await
GenerateResolves ==
    /\ fl_inflight # NoTask
    /\ fl_abort = "live"
    /\ LET task == fl_inflight
           text == Generate(task.inputText, task.filterId, task.intensity)
           session == Put(fl_session, task.cacheKey, text)
           cache == Put(fl_cache, task.cacheKey, text)
           r == RunLoop(PatchQueue(fl_queue, task.cacheKey, text), cache,
                        fl_loopCache, session)
       IN  /\ fl_session' = session
           /\ fl_closure' = cache
           /\ fl_queue' = r.queue
           /\ fl_cache' = r.cache
           /\ fl_inflight' = r.inflight
           /\ fl_sent' = IF r.inflight = NoTask THEN fl_sent
                         ELSE fl_sent \cup {Request(r.inflight)}
           /\ fl_isGenerating' = (r.inflight # NoTask)
           /\ fl_abort' = IF r.inflight # NoTask THEN "live" ELSE "none"
           /\ fl_loopCache' = IF r.inflight # NoTask THEN fl_loopCache ELSE EmptyCache
           /\ fl_event' = [ev |-> "resolved", cacheKey |-> task.cacheKey, text |-> text]
    /\ UNCHANGED <<fl_layers, fl_plan, fl_edits, pfVars, rnVars, gf_ret, exVars, suVars, bxVars, ssVars, rtVars, apVars>>

\* the awaited generator call fails (error response): the catch block logs it and
\* the loop goes on with the next task
GenerateFails ==
    /\ fl_inflight # NoTask
    /\ fl_abort = "live"
    /\ LET r == RunLoop(fl_queue, fl_cache, fl_loopCache, fl_session)
       IN  /\ fl_queue' = r.queue
           /\ fl_cache' = r.cache
           /\ fl_inflight' = r.inflight
           /\ fl_sent' = IF r.inflight = NoTask THEN fl_sent
                         ELSE fl_sent \cup {Request(r.inflight)}
           /\ fl_isGenerating' = (r.inflight # NoTask)
           /\ fl_abort' = IF r.inflight # NoTask THEN "live" ELSE "none"
           /\ fl_loopCache' = IF r.inflight # NoTask THEN fl_loopCache ELSE EmptyCache
           /\ fl_event' = [ev |-> "failed", cacheKey |-> fl_inflight.cacheKey]
    /\ UNCHANGED <<fl_layers, fl_session, fl_closure, fl_plan, fl_edits, pfVars, rnVars, gf_ret, exVars, suVars, bxVars, ssVars, rtVars, apVars>>

GenerateAborted_WritesResult ==
    /\ fl_inflight # NoTask
    /\ fl_abort = "aborted"
    /\ LET text == Generate(fl_inflight.inputText, fl_inflight.filterId,
                            fl_inflight.intensity)
       IN  /\ fl_session' = Put(fl_session, fl_inflight.cacheKey, text)
           /\ fl_cache' = Put(fl_cache, fl_inflight.cacheKey, text)
    /\ fl_inflight' = NoTask
    /\ fl_isGenerating' = FALSE
    /\ fl_abort' = "none"
    /\ fl_loopCache' = EmptyCache
    /\ fl_event' = [ev |-> "aborted", cacheKey |-> fl_inflight.cacheKey]
    /\ UNCHANGED <<fl_layers, fl_closure, fl_queue, fl_sent,
                   fl_plan, fl_edits, pfVars, rnVars, gf_ret, exVars, suVars, bxVars, ssVars, rtVars, apVars>>

\* the aborted fetch rejects with AbortError: the loop breaks
GenerateAborted ==
    /\ fl_inflight # NoTask
    /\ fl_abort = "aborted"
    /\ fl_inflight' = NoTask
    /\ fl_isGenerating' = FALSE
    /\ fl_abort' = "none"
    /\ fl_loopCache' = EmptyCache
    /\ fl_event' = [ev |-> "aborted", cacheKey |-> fl_inflight.cacheKey]
    /\ UNCHANGED <<fl_layers, fl_session, fl_cache, fl_closure, fl_queue, fl_sent,
                   fl_plan, fl_edits, pfVars, rnVars, gf_ret, exVars, suVars, bxVars, ssVars, rtVars, apVars>>

InitFilter ==
    /\ pf_filters = <<>>
    /\ pf_other = <<>>
    /\ pf_cache = CacheOf({})
    /\ pf_ret = NoCall
    /\ PageIdle
    /\ gf_ret = NoCall
    /\ ExploreIdle
    /\ SetupIdle
    /\ BridgeExploreIdle
    /\ StoreIdle
    /\ RetryIdle
    /\ ApplyIdle
    /\ RunIdle

NextFilter ==
    \/ addLayer
    \/ removeLayer
    \/ toggleLayer
    \/ changeLayerIntensity
    \/ handleLayerDrop
    \/ GenerateResolves
    \/ GenerateFails
    \/ GenerateAborted

SpecFilter == InitFilter /\ [][NextFilter]_vars

---------------------------------------------------------------------------
(* The filter page (pages/filters.js, filter stack version): handlers *)

\* the filters of the page, in the order of AVAILABLE_FILTERS (a prefix of it)
StackFilters == <<"simplify", "formalize", "humor">>

\* order: null
NullOrder == -1

\* Number(order): null counts as 0 in a comparison
ToNumber(order) == IF order = NullOrder THEN 0 ELSE order

\* the index of the filter in the filters array
IndexOf(id) == CHOOSE n \in 1..Len(StackFilters) : StackFilters[n] = id

Enabled(filters) == { id \in DOMAIN filters : filters[id].enabled }

\* filters.filter(f => f.enabled).sort((a, b) => a.order - b.order): a stable
\* sort, filters of equal order stay in array order
getActiveFilters(filters) ==
    LET before(a, b) == \/ filters[a].order < filters[b].order
                        \/ /\ filters[a].order = filters[b].order
                           /\ IndexOf(a) < IndexOf(b)
        rank(a) == Cardinality({ b \in Enabled(filters) : before(b, a) }) + 1
    IN  [n \in 1..Cardinality(Enabled(filters)) |->
            LET id == CHOOSE a \in Enabled(filters) : rank(a) = n
            IN  [id |-> id, intensity |-> filters[id].intensity]]

\* the request of a plan step, with what the caches hold when it is sent
Dispatch(step, cache, store) ==
    [cacheKey |-> step.cacheKey, inputText |-> step.inputText,
     filterId |-> step.filterId, intensity |-> step.intensity,
     previousKey |-> step.previousKey,
     cached |-> Get(cache, step.previousKey),
     stored |-> Truthy(store, step.cacheKey)]

handleFilterToggle ==
    \E id \in DOMAIN ap_filters :
        /\ IF ap_filters[id].enabled
           THEN \* filter.order is null when the other orders are compared with it
                ap_filters' =
                    [f \in DOMAIN ap_filters |->
                        IF f = id
                        THEN [ap_filters[f] EXCEPT !.enabled = FALSE, !.order = NullOrder]
                        ELSE IF ap_filters[f].enabled
                                /\ ap_filters[f].order > ToNumber(NullOrder)
                             THEN [ap_filters[f] EXCEPT !.order = @ - 1]
                             ELSE ap_filters[f]]
           ELSE ap_filters' =
                    [ap_filters EXCEPT ![id].enabled = TRUE,
                                       ![id].order = Cardinality(Enabled(ap_filters))]
        /\ ap_edits < MaxEdits
        /\ ap_edits' = ap_edits + 1
        /\ ap_hasUnsavedChanges' = TRUE
        /\ ap_event' = [ev |-> "handleFilterToggle"]
        /\ UNCHANGED <<ap_cache, ap_store, ap_isGenerating, ap_run, ap_last, ap_done,
                       ap_applies, pfVars, flVars, rnVars, gf_ret, exVars, suVars,
                       bxVars, ssVars, rtVars>>

\* the slider is disabled for a filter that is not enabled
handleIntensityChange ==
    \E id \in DOMAIN ap_filters, newIntensity \in SliderIntensities :
        /\ ap_filters[id].enabled
        /\ ap_filters[id].intensity # newIntensity
        /\ ap_filters' = [ap_filters EXCEPT ![id].intensity = newIntensity]
        /\ ap_edits < MaxEdits
        /\ ap_edits' = ap_edits + 1
        /\ ap_hasUnsavedChanges' = TRUE
        /\ ap_event' = [ev |-> "handleIntensityChange"]
        /\ UNCHANGED <<ap_cache, ap_store, ap_isGenerating, ap_run, ap_last, ap_done,
                       ap_applies, pfVars, flVars, rnVars, gf_ret, exVars, suVars,
                       bxVars, ssVars, rtVars>>

\* handleReorder(filterId, direction) when it gets past its early returns
handleReorder ==
    \E id \in Enabled(ap_filters), direction \in {"up", "down"} :
        LET currentIndex == ap_filters[id].order
            newIndex == IF direction = "up" THEN currentIndex - 1 ELSE currentIndex + 1
            found == { f \in Enabled(ap_filters) : ap_filters[f].order = newIndex }
        IN  /\ newIndex >= 0
            /\ newIndex < Cardinality(Enabled(ap_filters))
            /\ found # {}
            /\ LET swapFilter == CHOOSE f \in found :
                                     \A g \in found : IndexOf(f) <= IndexOf(g)
               IN  ap_filters' = [ap_filters EXCEPT ![id].order = newIndex,
                                                    ![swapFilter].order = currentIndex]
            /\ ap_edits < MaxEdits
            /\ ap_edits' = ap_edits + 1
            /\ ap_hasUnsavedChanges' = TRUE
            /\ ap_event' = [ev |-> "handleReorder"]
            /\ UNCHANGED <<ap_cache, ap_store, ap_isGenerating, ap_run, ap_last, ap_done,
                           ap_applies, pfVars, flVars, rnVars, gf_ret, exVars, suVars,
                           bxVars, ssVars, rtVars>>

\* applyFilterStack up to its first await; the button is disabled while
\* isGenerating or without unsaved changes
applyFilterStack ==
    /\ ~ap_isGenerating
    /\ ap_hasUnsavedChanges
    /\ ap_applies < MaxApplies
    /\ ap_applies' = ap_applies + 1
    /\ LET activeFilters == getActiveFilters(ap_filters)
           generationPlan == calculateGenerationPlan(activeFilters, ap_cache)
       IN  IF Len(activeFilters) = 0 \/ Len(generationPlan) = 0
           THEN /\ ap_hasUnsavedChanges' = FALSE
                /\ ap_event' = [ev |-> "applied", sent |-> FALSE]
                /\ ap_done' = {}
                /\ UNCHANGED <<ap_isGenerating, ap_run, ap_last>>
           ELSE /\ ap_isGenerating' = TRUE
                /\ ap_run' = [cache |-> ap_cache, plan |-> generationPlan, i |-> 1]
                /\ ap_last' = Dispatch(generationPlan[1], ap_cache, ap_store)
                /\ ap_done' = {}
                /\ ap_event' = [ev |-> "applied", sent |-> TRUE]
                /\ UNCHANGED ap_hasUnsavedChanges
    /\ UNCHANGED <<ap_filters, ap_cache, ap_store, ap_edits, pfVars, flVars, rnVars,
                   gf_ret, exVars, suVars, bxVars, ssVars, rtVars>>

\* the awaited generateFilterStep returns a text: the cache built from the cache
\* of the render that started the run, updateCache, then the next step, or the
\* end of the run with its saveSession
ApplyStepResolves ==
    /\ ap_run # NoRun
    /\ LET step == ap_run.plan[ap_run.i]
           text == Generate(step.inputText, step.filterId, step.intensity)
           newCache == Put(ap_run.cache, step.cacheKey, text)
           store == Put(ap_store, step.cacheKey, text)
       IN  /\ ap_cache' = newCache
           /\ ap_done' = ap_done \cup {step.cacheKey}
           /\ IF ap_run.i < Len(ap_run.plan)
              THEN LET plan == [ap_run.plan EXCEPT ![ap_run.i + 1].inputText = text]
                   IN  /\ ap_run' = [ap_run EXCEPT !.plan = plan, !.i = @ + 1]
                       /\ ap_last' = Dispatch(plan[ap_run.i + 1], newCache, store)
                       /\ ap_store' = store
                       /\ ap_event' = [ev |-> "resolved", cacheKey |-> step.cacheKey]
                       /\ UNCHANGED <<ap_isGenerating, ap_hasUnsavedChanges>>
              ELSE /\ ap_run' = NoRun
                   /\ ap_isGenerating' = FALSE
                   /\ ap_hasUnsavedChanges' = FALSE
                   /\ ap_store' = ap_run.cache
                   /\ ap_event' = [ev |-> "completed", cacheKey |-> step.cacheKey]
                   /\ UNCHANGED ap_last
    /\ UNCHANGED <<ap_filters, ap_applies, ap_edits, pfVars, flVars, rnVars, gf_ret,
                   exVars, suVars, bxVars, ssVars, rtVars>>

\* the awaited generateFilterStep throws: setError, the run returns
ApplyStepFails ==
    /\ ap_run # NoRun
    /\ ap_run' = NoRun
    /\ ap_isGenerating' = FALSE
    /\ ap_event' = [ev |-> "failed", cacheKey |-> ap_run.plan[ap_run.i].cacheKey]
    /\ UNCHANGED <<ap_filters, ap_cache, ap_store, ap_hasUnsavedChanges, ap_last, ap_done,
                   ap_applies, ap_edits, pfVars, flVars, rnVars, gf_ret, exVars, suVars,
                   bxVars, ssVars, rtVars>>

\* Reset All: the button is disabled while isGenerating
handleResetAll ==
    /\ ~ap_isGenerating
    /\ ap_event.ev # "handleResetAll"
    /\ LET newCache == [k \in {"original"} |-> Get(ap_cache, "original")]
       IN  /\ ap_cache' = newCache
           /\ ap_store' = newCache
    /\ ap_filters' = [f \in DOMAIN ap_filters |->
                         [enabled |-> FALSE, order |-> NullOrder,
                          intensity |-> DefaultIntensity]]
    /\ ap_hasUnsavedChanges' = FALSE
    /\ ap_event' = [ev |-> "handleResetAll"]
    /\ UNCHANGED <<ap_isGenerating, ap_run, ap_last, ap_done, ap_applies, ap_edits,
                   pfVars, flVars, rnVars, gf_ret, exVars, suVars, bxVars, ssVars, rtVars>>

\* the page after handleLoadFilters
InitApply ==
    /\ pf_filters = <<>>
    /\ pf_other = <<>>
    /\ pf_cache = CacheOf({})
    /\ pf_ret = NoCall
    /\ PageIdle
    /\ RunIdle
    /\ gf_ret = NoCall
    /\ ExploreIdle
    /\ SetupIdle
    /\ BridgeExploreIdle
    /\ StoreIdle
    /\ RetryIdle
    /\ ap_filters = [f \in { StackFilters[n] : n \in 1..Len(StackFilters) } |->
                        [enabled |-> FALSE, order |-> NullOrder,
                         intensity |-> DefaultIntensity]]
    /\ ap_cache = CacheOf({})
    /\ ap_store = CacheOf({})
    /\ ap_isGenerating = FALSE
    /\ ap_hasUnsavedChanges = FALSE
    /\ ap_run = NoRun
    /\ ap_last = NoTask
    /\ ap_done = {}
    /\ ap_applies = 0
    /\ ap_edits = 0
    /\ ap_event = [ev |-> "handleLoadFilters"]

NextApply ==
    \/ handleFilterToggle
    \/ handleIntensityChange
    \/ handleReorder
    \/ applyFilterStack
    \/ ApplyStepResolves
    \/ ApplyStepFails
    \/ handleResetAll

SpecApply == InitApply /\ [][NextApply]_vars

---------------------------------------------------------------------------
(* The generate pages: grid rings (Generate page) and bridge rounds
   (pages/bridge-generate.js) *)

maxRetries == 3

batchSize == 2

LastRound == 4

\* the index pairs of the double loop of getRingCoordinates, in loop order
RingLoop(n) ==
    [k \in 1..((2 * n + 1) * (2 * n + 1)) |->
        <<((k - 1) \div (2 * n + 1)) - n, ((k - 1) % (2 * n + 1)) - n>>]

Abs(v) == IF v < 0 THEN 0 - v ELSE v

Max(a, b) == IF a >= b THEN a ELSE b

Coordinate(xy) == ToString(xy[1]) \o "," \o ToString(xy[2])

getRingCoordinates_VerticalEdges(ringNumber) ==
    IF ringNumber = 0 THEN <<"0,0">>
    ELSE LET kept == SelectSeq(RingLoop(ringNumber),
                               LAMBDA xy : Abs(xy[1]) = ringNumber)
         IN  [n \in 1..Len(kept) |-> Coordinate(kept[n])]

getRingCoordinates(ringNumber) ==
    IF ringNumber = 0 THEN <<"0,0">>
    ELSE LET kept == SelectSeq(RingLoop(ringNumber),
                               LAMBDA xy : Max(Abs(xy[1]), Abs(xy[2])) = ringNumber)
         IN  [n \in 1..Len(kept) |-> Coordinate(kept[n])]

getRoundPositions_FourInRoundTwo(round) ==
    CASE round = 1 -> <<5>>
      [] round = 2 -> <<2, 4, 7>>
      [] round = 3 -> <<1, 3, 6, 8>>
      [] round = 4 -> <<9>>
      [] OTHER -> <<>>

getRoundPositions(round) ==
    CASE round = 1 -> <<5>>
      [] round = 2 -> <<2, 7>>
      [] round = 3 -> <<1, 3, 6, 8>>
      [] round = 4 -> <<4, 9>>
      [] OTHER -> <<>>

\* null (dependencies[position] || null): no dependencies
Null == <<>>

getPositionDependencies_Neighbours(position) ==
    IF position \in 1..9 THEN <<position - 1, position + 1>> ELSE Null

getPositionDependencies(position) ==
    CASE position = 5 -> <<0, 10>>
      [] position = 2 -> <<0, 5>>
      [] position = 7 -> <<5, 10>>
      [] position = 1 -> <<0, 2>>
      [] position = 3 -> <<2, 5>>
      [] position = 6 -> <<5, 7>>
      [] position = 8 -> <<7, 10>>
      [] position = 4 -> <<3, 5>>
      [] position = 9 -> <<8, 10>>
      [] OTHER -> Null

\* batch size of generateRing and of generateRound
BatchSizeOf(feature, model) ==
    IF feature = "grid" THEN batchSize
    ELSE IF model = "gemini-2.5-flash" THEN 4
    ELSE IF model = "sonnet-4.5" THEN 2
    ELSE 1

FirstLevel_RingOne(feature) == 1

FirstLevel(feature) == IF feature = "grid" THEN 0 ELSE 1

LastLevel(feature) == IF feature = "grid" THEN LastRing ELSE LastRound

LevelTasks_SecondLevelEarly(feature, level) ==
    IF feature = "grid"
    THEN IF level = 0 THEN getRingCoordinates(0) \o getRingCoordinates(1)
         ELSE getRingCoordinates(level)
    ELSE IF level = 1 THEN getRoundPositions(1) \o getRoundPositions(2)
         ELSE getRoundPositions(level)

LevelTasks(feature, level) ==
    IF feature = "grid" THEN getRingCoordinates(level) ELSE getRoundPositions(level)

\* the external TextGenerator: the text of a grid variation, the blend of two texts
VariationText(coordinate) == "v(" \o coordinate \o ")"

BlendText(textLeft, textRight) == "(" \o textLeft \o "+" \o textRight \o ")"

MissingDependency_Never(feature, store, task) == FALSE

\* !textLeft || !textRight in generatePosition
MissingDependency(feature, store, task) ==
    /\ feature = "bridge"
    /\ \/ ~Truthy(store, getPositionDependencies(task)[1])
       \/ ~Truthy(store, getPositionDependencies(task)[2])

SeqToSet(q) == { q[n] : n \in 1..Len(q) }

NoAttempts == [issued |-> 0, failed |-> 0]

AttemptsOf(attempts, task) ==
    IF task \in DOMAIN attempts THEN attempts[task] ELSE NoAttempts

NoBody == [mode |-> "none"]

\* the body of the request of a task: the coordinate for the grid; for the bridge
\* the two texts read from the session store when generatePosition starts
RequestBody(feature, store, task) ==
    IF feature = "grid"
    THEN [mode |-> "grid", coordinate |-> task]
    ELSE [mode |-> "bridge",
          textLeft |-> Get(store, getPositionDependencies(task)[1]),
          textRight |-> Get(store, getPositionDependencies(task)[2])]

\* (IssueBatch, NextLevel and Drive take the state of the run and the store by
\* value: st and store are bound once to the values of run and stored.)

\* the start of the next batch: slice, 'generating', then one generateCoordinate /
\* generatePosition per task up to its first await
IssueBatch(run, stored, feature, model) ==
    CHOOSE next \in {
        LET size == BatchSizeOf(feature, model)
            n == IF Len(st.rest) < size THEN Len(st.rest) ELSE size
            batch == SeqToSet(SubSeq(st.rest, 1, n))
            blocked == { t \in batch : MissingDependency(feature, store, t) }
        IN  [st EXCEPT
                !.rest = SubSeq(st.rest, n + 1, Len(st.rest)),
                !.batch = [t \in batch |->
                              IF t \in blocked
                              THEN [attempt |-> 0, phase |-> "done", body |-> NoBody]
                              ELSE [attempt |-> 0, phase |-> "calling",
                                    body |-> RequestBody(feature, store, t)]],
                !.status = [t \in DOMAIN st.status \cup batch |->
                              IF t \in blocked THEN "error"
                              ELSE IF t \in batch THEN "generating"
                              ELSE st.status[t]],
                !.attempts = [t \in DOMAIN st.attempts \cup (batch \ blocked) |->
                              IF t \in batch
                              THEN [AttemptsOf(st.attempts, t) EXCEPT !.issued = @ + 1]
                              ELSE st.attempts[t]],
                !.pc = "batch"]
        : st \in {run}, store \in {stored} } : TRUE

RECURSIVE Drive(_, _, _, _)
RECURSIVE NextLevel(_, _, _, _, _)

\* the loop over rings of continueGeneration / over rounds of generateBridge from
\* level lvl on, up to the next await or the end of the run
NextLevel(run, lvl, stored, feature, model) ==
    CHOOSE next \in {
        IF lvl > LastLevel(feature)
        THEN [st EXCEPT !.pc = "done", !.progress = "complete", !.batch = EmptyCache,
                        !.level = LastLevel(feature)]
        ELSE LET missing == SelectSeq(LevelTasks(feature, lvl),
                                      LAMBDA t : ~Truthy(st.existing, t))
             IN  IF Len(missing) = 0
                 THEN NextLevel(st, lvl + 1, store, feature, model)
                 ELSE Drive(IssueBatch(
                                [st EXCEPT
                                    !.level = lvl,
                                    !.rest = missing,
                                    !.status = [t \in DOMAIN st.status \cup SeqToSet(missing) |->
                                                   IF t \in SeqToSet(missing) THEN "pending"
                                                   ELSE st.status[t]]],
                                store, feature, model),
                            store, feature, model)
        : st \in {run}, store \in {stored} } : TRUE

\* what follows the end of a generateCoordinate / generatePosition: nothing while
\* the Promise.all is pending; then the delay before the next batch, or the next
\* ring or round
Drive(run, stored, feature, model) ==
    CHOOSE next \in {
        IF \E t \in DOMAIN st.batch : st.batch[t].phase # "done"
        THEN st
        ELSE IF Len(st.rest) > 0
        THEN [st EXCEPT !.pc = "delay", !.batch = EmptyCache]
        ELSE NextLevel(
                 [st EXCEPT !.existing =
                     IF feature = "bridge"
                     THEN [t \in DOMAIN st.existing \cup DOMAIN store |->
                              IF t \in DOMAIN store THEN store[t] ELSE st.existing[t]]
                     ELSE st.existing],
                 st.level + 1, store, feature, model)
        : st \in {run}, store \in {stored} } : TRUE

RunState ==
    [level |-> rn_level, rest |-> rn_rest, batch |-> rn_batch, status |-> rn_status,
     attempts |-> rn_attempts, existing |-> rn_existing, progress |-> rn_progress,
     pc |-> rn_pc]

RunBecomes(st) ==
    /\ rn_level' = st.level
    /\ rn_rest' = st.rest
    /\ rn_batch' = st.batch
    /\ rn_status' = st.status
    /\ rn_attempts' = st.attempts
    /\ rn_existing' = st.existing
    /\ rn_progress' = st.progress
    /\ rn_pc' = st.pc

\* continueGeneration(loadedSession), up to its first await
continueGeneration ==
    /\ rn_pc = "mount"
    /\ rn_feature = "grid"
    /\ RunBecomes(NextLevel([RunState EXCEPT !.progress = "generating"],
                            FirstLevel("grid"), rn_store, "grid", rn_model))
    /\ UNCHANGED <<rn_feature, rn_model, rn_store, rn_failures, pfVars, flVars, gf_ret, exVars, suVars, bxVars, ssVars, rtVars, apVars>>

\* generateBridge(loadedSession), up to its first await
generateBridge ==
    /\ rn_pc = "mount"
    /\ rn_feature = "bridge"
    /\ RunBecomes(NextLevel([RunState EXCEPT !.progress = "generating"],
                            FirstLevel("bridge"), rn_store, "bridge", rn_model))
    /\ UNCHANGED <<rn_feature, rn_model, rn_store, rn_failures, pfVars, flVars, gf_ret, exVars, suVars, bxVars, ssVars, rtVars, apVars>>

\* the text the generator returns for a request
ResultText(body) ==
    IF body.mode = "grid" THEN VariationText(body.coordinate)
    ELSE BlendText(body.textLeft, body.textRight)

\* the generator call of a task returns a text: the store is updated, the task is
\* 'complete'
AttemptSucceeds ==
    /\ rn_pc = "batch"
    /\ \E task \in DOMAIN rn_batch :
        /\ rn_batch[task].phase = "calling"
        /\ LET store == Put(rn_store, task, ResultText(rn_batch[task].body))
           IN  /\ rn_store' = store
               /\ RunBecomes(Drive(
                      [RunState EXCEPT
                          !.batch[task].phase = "done",
                          !.status[task] = "complete"],
                      store, rn_feature, rn_model))
    /\ UNCHANGED <<rn_feature, rn_model, rn_failures, pfVars, flVars, gf_ret, exVars, suVars, bxVars, ssVars, rtVars, apVars>>

AfterFailure_AlwaysRetries(entry) == [entry EXCEPT !.phase = "backoff"]

AfterFailure_GivesUp(entry) == [entry EXCEPT !.phase = "done"]

\* the catch block of the retry loop: back off before the next attempt, or leave
\* the loop after the last one
AfterFailure(entry) ==
    IF entry.attempt < maxRetries - 1
    THEN [entry EXCEPT !.phase = "backoff"]
    ELSE [entry EXCEPT !.phase = "done"]

\* the generator call of a task fails (error response or rejected fetch)
AttemptFails ==
    /\ rn_pc = "batch"
    /\ rn_failures < MaxFailures
    /\ rn_failures' = rn_failures + 1
    /\ \E task \in DOMAIN rn_batch :
        /\ rn_batch[task].phase = "calling"
        /\ LET entry == AfterFailure(rn_batch[task])
           IN  RunBecomes(Drive(
                   [RunState EXCEPT
                       !.batch[task] = entry,
                       !.attempts[task].failed = @ + 1,
                       !.status[task] = IF entry.phase = "done" THEN "error" ELSE @],
                   rn_store, rn_feature, rn_model))
    /\ UNCHANGED <<rn_feature, rn_model, rn_store, pfVars, flVars, gf_ret, exVars, suVars, bxVars, ssVars, rtVars, apVars>>

\* the backoff delay of a task is over: next attempt
BackoffElapses ==
    /\ rn_pc = "batch"
    /\ \E task \in DOMAIN rn_batch :
        /\ rn_batch[task].phase = "backoff"
        /\ RunBecomes([RunState EXCEPT
               !.batch[task] = [@ EXCEPT !.attempt = @ + 1, !.phase = "calling"],
               !.attempts[task].issued = @ + 1])
    /\ UNCHANGED <<rn_feature, rn_model, rn_store, rn_failures, pfVars, flVars, gf_ret, exVars, suVars, bxVars, ssVars, rtVars, apVars>>

\* the delay between two batches is over: next batch
DelayElapses ==
    /\ rn_pc = "delay"
    /\ RunBecomes(Drive(IssueBatch(RunState, rn_store, rn_feature, rn_model),
                        rn_store, rn_feature, rn_model))
    /\ UNCHANGED <<rn_feature, rn_model, rn_store, rn_failures, pfVars, flVars, gf_ret, exVars, suVars, bxVars, ssVars, rtVars, apVars>>

BridgeModels == {"haiku-4.5", "sonnet-4.5", "gemini-2.5-flash"}

\* the session the setup page leaves: no generation for the grid, the two anchor
\* texts for the bridge
InitRun ==
    /\ pf_filters = <<>>
    /\ pf_other = <<>>
    /\ pf_cache = CacheOf({})
    /\ pf_ret = NoCall
    /\ PageIdle
    /\ gf_ret = NoCall
    /\ ExploreIdle
    /\ SetupIdle
    /\ BridgeExploreIdle
    /\ StoreIdle
    /\ RetryIdle
    /\ ApplyIdle
    /\ \/ /\ rn_feature = "grid"
          /\ rn_model = "none"
          /\ rn_store = EmptyCache
       \/ /\ rn_feature = "bridge"
          /\ rn_model \in BridgeModels
          /\ rn_store = [t \in {0, 10} |-> IF t = 0 THEN "A" ELSE "B"]
    /\ rn_existing = rn_store
    /\ rn_status = EmptyCache
    /\ rn_level = 0
    /\ rn_rest = <<>>
    /\ rn_batch = EmptyCache
    /\ rn_attempts = EmptyCache
    /\ rn_failures = 0
    /\ rn_progress = "idle"
    /\ rn_pc = "mount"

NextRun ==
    \/ continueGeneration
    \/ generateBridge
    \/ AttemptSucceeds
    \/ AttemptFails
    \/ BackoffElapses
    \/ DelayElapses

SpecRun == InitRun /\ [][NextRun]_vars

\* the run under fair scheduling: the mount effect runs, every generator call
\* returns or fails, and the timers of the backoff and of the delay between
\* batches fire
SpecRunFair ==
    /\ SpecRun
    /\ WF_vars(continueGeneration)
    /\ WF_vars(generateBridge)
    /\ WF_vars(AttemptSucceeds \/ AttemptFails)
    /\ WF_vars(BackoffElapses)
    /\ WF_vars(DelayElapses)

---------------------------------------------------------------------------
(* ringGenerator: the remaining functions and their calls *)

GridRadius == 5

RECURSIVE getCoordinatesUpToRing(_)
getCoordinatesUpToRing(maxRing) ==
    IF maxRing < 0 THEN <<>>
    ELSE getCoordinatesUpToRing(maxRing - 1) \o getRingCoordinates(maxRing)

getAllCoordinates == getCoordinatesUpToRing(GridRadius)

\* a string as the sequence of its characters
DigitChars == <<"0", "1", "2", "3", "4", "5", "6", "7", "8", "9">>

RECURSIVE NaturalChars(_)
NaturalChars(v) ==
    IF v < 10 THEN <<DigitChars[v + 1]>>
    ELSE NaturalChars(v \div 10) \o <<DigitChars[(v % 10) + 1]>>

\* the characters of `${v}`
NumberChars(v) == IF v < 0 THEN <<"-">> \o NaturalChars(0 - v) ELSE NaturalChars(v)

\* the characters of `${x},${y}`
CoordinateChars(xy) == NumberChars(xy[1]) \o <<",">> \o NumberChars(xy[2])

RECURSIVE Str(_)
Str(chars) == IF Len(chars) = 0 THEN "" ELSE Head(chars) \o Str(Tail(chars))

RECURSIVE SplitFrom(_, _, _)
\* chars.split(sep): the pieces between the separators
SplitFrom(chars, sep, piece) ==
    IF Len(chars) = 0 THEN <<piece>>
    ELSE IF Head(chars) = sep THEN <<piece>> \o SplitFrom(Tail(chars), sep, <<>>)
    ELSE SplitFrom(Tail(chars), sep, Append(piece, Head(chars)))

Split(chars, sep) == SplitFrom(chars, sep, <<>>)

DigitValue(c) == (CHOOSE n \in 1..10 : DigitChars[n] = c) - 1

RECURSIVE NaturalValue(_, _)
NaturalValue(chars, acc) ==
    IF Len(chars) = 0 THEN acc
    ELSE NaturalValue(Tail(chars), 10 * acc + DigitValue(Head(chars)))

\* Number(s) for the decimal integers `${x}` produces
Number(chars) ==
    IF Len(chars) > 0 /\ Head(chars) = "-" THEN 0 - NaturalValue(Tail(chars), 0)
    ELSE NaturalValue(chars, 0)

\* the coordinate is given by its characters
getRingNumber(coordinate) ==
    LET parts == Split(coordinate, ",")
        x == Number(parts[1])
        y == Number(parts[2])
    IN  Max(Abs(x), Abs(y))

RingInputs == 0..GridRadius

CoordinateInputs == { <<x, y>> : x \in (0 - GridRadius)..GridRadius,
                                 y \in (0 - GridRadius)..GridRadius }

CallGetRingCoordinates ==
    /\ \E ringNumber \in RingInputs :
           gf_ret' = [op |-> "getRingCoordinates", ringNumber |-> ringNumber,
                      val |-> getRingCoordinates(ringNumber)]
    /\ UNCHANGED <<pfVars, flVars, rnVars, exVars, suVars, bxVars, ssVars, rtVars, apVars>>

CallGetCoordinatesUpToRing ==
    /\ \E maxRing \in RingInputs :
           gf_ret' = [op |-> "getCoordinatesUpToRing", maxRing |-> maxRing,
                      val |-> getCoordinatesUpToRing(maxRing)]
    /\ UNCHANGED <<pfVars, flVars, rnVars, exVars, suVars, bxVars, ssVars, rtVars, apVars>>

CallGetAllCoordinates ==
    /\ gf_ret' = [op |-> "getAllCoordinates", val |-> getAllCoordinates]
    /\ UNCHANGED <<pfVars, flVars, rnVars, exVars, suVars, bxVars, ssVars, rtVars, apVars>>

CallGetRingNumber ==
    /\ \E xy \in CoordinateInputs :
           gf_ret' = [op |-> "getRingNumber", coordinate |-> Str(CoordinateChars(xy)),
                      val |-> getRingNumber(CoordinateChars(xy))]
    /\ UNCHANGED <<pfVars, flVars, rnVars, exVars, suVars, bxVars, ssVars, rtVars, apVars>>

---------------------------------------------------------------------------
(* bridgeGenerator.js: the remaining functions, and calls of the
   generator functions with every argument *)

getAllPositions == <<0, 1, 2, 3, 4, 5, 6, 7, 8, 9, 10>>

getGenerationOrder == <<5, 2, 7, 1, 3, 6, 8, 4, 9>>

\* availablePositions is given by the set of its keys
canGeneratePosition(position, availablePositions) ==
    LET deps == getPositionDependencies(position)
    IN  IF deps = Null THEN FALSE
        ELSE deps[1] \in availablePositions /\ deps[2] \in availablePositions

getNextGenerablePositions_AnyDependency(availablePositions) ==
    SelectSeq(getGenerationOrder,
              LAMBDA pos : /\ pos \notin availablePositions
                           /\ \/ getPositionDependencies(pos)[1] \in availablePositions
                              \/ getPositionDependencies(pos)[2] \in availablePositions)

getNextGenerablePositions(availablePositions) ==
    SelectSeq(getGenerationOrder,
              LAMBDA pos : pos \notin availablePositions
                           /\ canGeneratePosition(pos, availablePositions))

getPositionRound(position) ==
    IF position = 5 THEN 1
    ELSE IF position = 2 \/ position = 7 THEN 2
    ELSE IF position \in {1, 3, 6, 8} THEN 3
    ELSE IF position = 4 \/ position = 9 THEN 4
    ELSE 0

getTotalPositionsUpToRound(round) ==
    IF round = 0 THEN 0
    ELSE IF round = 1 THEN 1
    ELSE IF round = 2 THEN 3
    ELSE IF round = 3 THEN 7
    ELSE IF round = 4 THEN 9
    ELSE 9

\* the arguments the functions are called with
PositionInputs == SeqToSet(getAllPositions)

RoundInputs == 0..(LastRound + 1)

\* the anchors and the positions generated so far, less one that failed
AvailableInputs ==
    { {0, 10} \cup (SeqToSet(SubSeq(getGenerationOrder, 1, n)) \ {failed}) :
          n \in 0..Len(getGenerationOrder), failed \in 0..9 }

CallGetRoundPositions ==
    /\ \E round \in RoundInputs :
           gf_ret' = [op |-> "getRoundPositions", round |-> round,
                      val |-> getRoundPositions(round)]
    /\ UNCHANGED <<pfVars, flVars, rnVars, exVars, suVars, bxVars, ssVars, rtVars, apVars>>

CallGetPositionDependencies ==
    /\ \E position \in PositionInputs :
           gf_ret' = [op |-> "getPositionDependencies", position |-> position,
                      val |-> getPositionDependencies(position)]
    /\ UNCHANGED <<pfVars, flVars, rnVars, exVars, suVars, bxVars, ssVars, rtVars, apVars>>

CallGetPositionRound ==
    /\ \E position \in PositionInputs :
           gf_ret' = [op |-> "getPositionRound", position |-> position,
                      val |-> getPositionRound(position)]
    /\ UNCHANGED <<pfVars, flVars, rnVars, exVars, suVars, bxVars, ssVars, rtVars, apVars>>

CallGetTotalPositionsUpToRound ==
    /\ \E round \in RoundInputs :
           gf_ret' = [op |-> "getTotalPositionsUpToRound", round |-> round,
                      val |-> getTotalPositionsUpToRound(round)]
    /\ UNCHANGED <<pfVars, flVars, rnVars, exVars, suVars, bxVars, ssVars, rtVars, apVars>>

CallCanGeneratePosition ==
    /\ \E position \in PositionInputs, availablePositions \in AvailableInputs :
           gf_ret' = [op |-> "canGeneratePosition", position |-> position,
                      availablePositions |-> availablePositions,
                      val |-> canGeneratePosition(position, availablePositions)]
    /\ UNCHANGED <<pfVars, flVars, rnVars, exVars, suVars, bxVars, ssVars, rtVars, apVars>>

CallGetNextGenerablePositions ==
    /\ \E availablePositions \in AvailableInputs :
           gf_ret' = [op |-> "getNextGenerablePositions",
                      availablePositions |-> availablePositions,
                      val |-> getNextGenerablePositions(availablePositions)]
    /\ UNCHANGED <<pfVars, flVars, rnVars, exVars, suVars, bxVars, ssVars, rtVars, apVars>>

InitGen ==
    /\ pf_filters = <<>>
    /\ pf_other = <<>>
    /\ pf_cache = CacheOf({})
    /\ pf_ret = NoCall
    /\ PageIdle
    /\ RunIdle
    /\ gf_ret = NoCall
    /\ ExploreIdle
    /\ SetupIdle
    /\ BridgeExploreIdle
    /\ StoreIdle
    /\ RetryIdle
    /\ ApplyIdle

NextGen ==
    \/ CallGetRoundPositions
    \/ CallGetPositionDependencies
    \/ CallGetPositionRound
    \/ CallGetTotalPositionsUpToRound
    \/ CallCanGeneratePosition
    \/ CallGetNextGenerablePositions
    \/ CallGetRingCoordinates
    \/ CallGetCoordinatesUpToRing
    \/ CallGetAllCoordinates
    \/ CallGetRingNumber

SpecGen == InitGen /\ [][NextGen]_vars

---------------------------------------------------------------------------
(* The handler of /api/generate-single up to the provider call, with the   *)
(* prompt builders it calls.  A request body is a function from the names  *)
(* of the fields it has to their values.                                   *)

\* MODEL_CONFIGS[selectedModel]?.provider
ModelConfigs(selectedModel) ==
    CASE selectedModel \in {"haiku-4.5", "sonnet-4.5"} -> "anthropic"
      [] selectedModel = "gemini-2.5-flash" -> "google"
      [] OTHER -> Undefined

NaN == [nan |-> TRUE]

\* Number(piece) for a piece of coordinate.split(','): the empty string is 0, a
\* decimal integer is its value, any other of the pieces used here is NaN
JsNumber(chars) ==
    LET digits == IF Len(chars) > 0 /\ Head(chars) = "-" THEN Tail(chars) ELSE chars
    IN  IF Len(chars) = 0 THEN [nan |-> FALSE, val |-> 0]
        ELSE IF Len(digits) > 0
                /\ \A n \in 1..Len(digits) :
                       \E d \in 1..Len(DigitChars) : DigitChars[d] = digits[n]
        THEN [nan |-> FALSE, val |-> Number(chars)]
        ELSE NaN

\* const [x, y] = coordinate.split(',').map(Number): a missing piece is undefined
PieceNumber(parts, n) == IF n > Len(parts) THEN NaN ELSE JsNumber(parts[n])

INTENSITIES == <<"", "slightly", "moderately", "strongly", "very strongly", "extremely">>

\* INTENSITIES[Math.abs(v)] || ''
IntensityOf(v) ==
    IF ~v.nan /\ Abs(v.val) < Len(INTENSITIES) THEN INTENSITIES[Abs(v.val) + 1] ELSE ""

\* v > 0 ? positive : (v < 0 ? negative : null); comparisons with NaN are false
DirectionOf(v, positive, negative) ==
    IF ~v.nan /\ v.val > 0 THEN positive
    ELSE IF ~v.nan /\ v.val < 0 THEN negative
    ELSE Undefined

\* `${intensity} more ${direction}`.trim()
Transformation(intensity, direction) ==
    IF intensity = "" THEN "more " \o direction
    ELSE intensity \o " more " \o direction

\* buildPrompt(originalText, coordinate, adjectives): the transformations the
\* prompt asks for (none: the text is to be returned as written)
buildPrompt(originalText, coordinate, adjectives) ==
    LET parts == Split(coordinate, ",")
        x == PieceNumber(parts, 1)
        y == PieceNumber(parts, 2)
        xDirection == DirectionOf(x, adjectives.xPositive, adjectives.xNegative)
        yDirection == DirectionOf(y, adjectives.yPositive, adjectives.yNegative)
        notZero(v) == v.nan \/ v.val # 0
        forY == IF notZero(y) /\ yDirection \notin {Undefined, ""}
                THEN <<Transformation(IntensityOf(y), yDirection)>> ELSE <<>>
        forX == IF notZero(x) /\ xDirection \notin {Undefined, ""}
                THEN <<Transformation(IntensityOf(x), xDirection)>> ELSE <<>>
    IN  [thrown |-> FALSE, text |-> originalText, transformations |-> forY \o forX]

FilterIds == {"simplify", "formalize", "humor", "elaborate", "concise", "dramatize",
              "casual", "technical", "empathetic", "persuasive"}

\* buildFilterPrompt(inputText, filterId, intensity): throws for an intensity
\* outside 25, 50, 75, 100 and for a filter it has no instruction for
buildFilterPrompt(inputText, filterId, intensity) ==
    IF intensity \notin {25, 50, 75, 100} \/ filterId \notin FilterIds
    THEN [thrown |-> TRUE]
    ELSE [thrown |-> FALSE, text |-> inputText,
          transformations |-> <<ToString(intensity) \o " " \o filterId>>]

\* buildBridgePrompt(textLeft, textRight)
buildBridgePrompt(textLeft, textRight) ==
    [thrown |-> FALSE, text |-> textLeft \o "|" \o textRight, transformations |-> <<"blend">>]

Respond(status) == [called |-> FALSE, status |-> status]

\* the handler from its first line to the call of callAnthropicAPI / callGeminiAPI:
\* the response it returns before the call, or the prompt it calls the provider with
handlerUpToCall(method, body, keys) ==
    LET selectedModel == IF "selectedModel" \in DOMAIN body THEN body.selectedModel
                         ELSE "haiku-4.5"
        provider == ModelConfigs(selectedModel)
        mode == Get(body, "mode")
        prompt ==
            IF mode = "filter" THEN buildFilterPrompt(body.inputText, body.filterId,
                                                      body.intensity)
            ELSE IF mode = "bridge" THEN buildBridgePrompt(body.textLeft, body.textRight)
            ELSE buildPrompt(body.text, body.coordinate, body.adjectives)
    IN  IF method # "POST" THEN Respond(405)
        ELSE IF provider = Undefined THEN Respond(400)
        ELSE IF provider \notin keys THEN Respond(500)
        ELSE IF mode = "filter"
                /\ (\/ ~Truthy(body, "inputText") \/ ~Truthy(body, "filterId")
                    \/ "intensity" \notin DOMAIN body)
        THEN Respond(400)
        ELSE IF mode = "filter"
                /\ (\/ body.intensity < 25 \/ body.intensity > 100
                    \/ body.intensity % 25 # 0)
        THEN Respond(400)
        ELSE IF mode = "bridge"
                /\ (~Truthy(body, "textLeft") \/ ~Truthy(body, "textRight"))
        THEN Respond(400)
        ELSE IF mode \notin {"filter", "bridge"}
                /\ (\/ ~Truthy(body, "text") \/ "adjectives" \notin DOMAIN body
                    \/ "coordinate" \notin DOMAIN body \/ Len(body.coordinate) = 0)
        THEN Respond(400)
        ELSE IF mode \notin {"filter", "bridge"}
                /\ \E k \in {"yPositive", "yNegative", "xPositive", "xNegative"} :
                       body.adjectives[k] = ""
        THEN Respond(400)
        ELSE IF prompt.thrown THEN Respond(500)
        ELSE [called |-> TRUE, provider |-> provider, prompt |-> prompt]

\* the fields S of a body
Restrict(body, S) == [k \in S \cap DOMAIN body |-> body[k]]

\* a body and the bodies that lack one of its fields
WithoutOne(body) ==
    {body} \cup { Restrict(body, DOMAIN body \ {k}) : k \in DOMAIN body \ {"mode"} }

ModelInputs == {"haiku-4.5", "gemini-2.5-flash", "gpt-4"}

RequestAdjectives ==
    { [yPositive |-> "formal", yNegative |-> "casual", xPositive |-> "long",
       xNegative |-> xn] : xn \in {"short", ""} }

\* "0,0", "5,-5", "-3," and the malformed "9,9", "abc", "3"
CoordinateTexts ==
    { <<"0", ",", "0">>, <<"5", ",", "-", "5">>, <<"-", "3", ",">>,
      <<"9", ",", "9">>, <<"a", "b", "c">>, <<"3">> }

IntensityInputs == {0, 25, 30, 50, 125}

BodyInputs ==
    UNION { WithoutOne(body) :
        body \in { [text |-> "T", adjectives |-> a, coordinate |-> c, selectedModel |-> m] :
                       a \in RequestAdjectives, c \in CoordinateTexts, m \in ModelInputs }
            \cup { [mode |-> "bridge", textLeft |-> "A", textRight |-> r,
                    selectedModel |-> m] : r \in {"B", ""}, m \in ModelInputs }
            \cup { [mode |-> "filter", inputText |-> "T", filterId |-> f, intensity |-> i,
                    selectedModel |-> m] :
                       f \in {"simplify", "sparkle"}, i \in IntensityInputs,
                       m \in ModelInputs } }

\* a request arrives; the environment has the API keys of the providers in keys
CallHandler ==
    /\ \E method \in {"POST", "GET"}, body \in BodyInputs,
          keys \in SUBSET {"anthropic", "google"} :
           gf_ret' = [op |-> "handler", method |-> method, body |-> body, keys |-> keys,
                      val |-> handlerUpToCall(method, body, keys)]
    /\ UNCHANGED <<pfVars, flVars, rnVars, exVars, suVars, bxVars, ssVars, rtVars, apVars>>

NextHandler == CallHandler

SpecHandler == InitGen /\ [][NextHandler]_vars

---------------------------------------------------------------------------
(* The explore page of the grid (pages/explore.js) and the grid session manager *)

\* JSON.parse(JSON.stringify(generations)): properties whose value is undefined
\* are not serialised
JsonRoundTrip(generations) ==
    [c \in { k \in DOMAIN generations : generations[k] # Undefined } |-> generations[c]]

\* sessionManager.updateGeneration followed by loadSession: the generations and
\* progress.totalGenerated the session store then holds
updateGeneration(memory, generations, coordinate, text) ==
    LET updated == Put(generations, coordinate, text)
    IN  [generations |-> IF memory THEN updated ELSE JsonRoundTrip(updated),
         totalGenerated |-> Cardinality(DOMAIN updated)]

\* the four neighbours preloadAdjacentCoordinates computes from the characters of
\* the coordinate, filtered to the grid
AdjacentCoordinates(coordinate) ==
    LET parts == Split(coordinate, ",")
        x == Number(parts[1])
        y == Number(parts[2])
        adjacentCoords == <<CoordinateChars(<<x, y + 1>>), CoordinateChars(<<x, y - 1>>),
                            CoordinateChars(<<x - 1, y>>), CoordinateChars(<<x + 1, y>>)>>
    IN  SelectSeq(adjacentCoords,
                  LAMBDA coord :
                      LET cs == Split(coord, ",")
                      IN  /\ Number(cs[1]) >= -5 /\ Number(cs[1]) <= 5
                          /\ Number(cs[2]) >= -5 /\ Number(cs[2]) <= 5)

\* the requests preloadAdjacentCoordinates sends, given the generations it sees
PreloadRequests(coordinate, generations) ==
    { [kind |-> "preload", coordinate |-> Str(coord), seen |-> {}] :
          coord \in { c \in SeqToSet(AdjacentCoordinates(coordinate)) :
                          ~Truthy(generations, Str(c)) } }

\* the coordinates the circle is moved to
VisitInputs == { <<5, 5>>, <<4, 5>> }

\* the texts the generator may return for a coordinate: the language model
\* need not answer two calls for the same coordinate with the same text
GeneratorTexts(coordinate) ==
    { VariationText(coordinate), "w(" \o coordinate \o ")" }

\* updateText(coordinate): show the cached text and preload the neighbours, or
\* generate on demand
updateText ==
    /\ ex_moves < MaxMoves
    /\ ex_moves' = ex_moves + 1
    /\ \E xy \in VisitInputs :
         LET coordinate == Str(CoordinateChars(xy))
         IN  /\ ex_event' = [ev |-> "updateText", coordinate |-> coordinate]
             /\ IF Truthy(ex_session, coordinate)
                THEN ex_pending' = ex_pending
                         \cup PreloadRequests(CoordinateChars(xy), ex_session)
                ELSE ex_pending' = ex_pending
                         \cup {[kind |-> "onDemand", coordinate |-> coordinate,
                                seen |-> { c \in DOMAIN ex_session :
                                               Truthy(ex_session, c) }]}
    /\ UNCHANGED <<ex_memory, ex_store, ex_total, ex_session, pfVars, flVars, rnVars, gf_ret, suVars, bxVars, ssVars, rtVars, apVars>>

CharsOf(coordinate) ==
    CHOOSE chars \in { CoordinateChars(xy) : xy \in CoordinateInputs } :
        Str(chars) = coordinate

\* the on-demand call returns a text: it is stored, and the neighbours are
\* preloaded as seen by the session of the render that made the call
OnDemandResolves ==
    /\ \E req \in ex_pending :
        /\ req.kind = "onDemand"
        /\ \E text \in GeneratorTexts(req.coordinate) :
           LET updated == updateGeneration(ex_memory, ex_store, req.coordinate,
                                           text)
               seen == IF ex_memory
                       THEN updated.generations
                       ELSE [c \in req.seen |-> "seen"]
           IN  /\ ex_store' = updated.generations
               /\ ex_total' = updated.totalGenerated
               /\ ex_session' = updated.generations
               /\ ex_pending' = (ex_pending \ {req})
                       \cup PreloadRequests(CharsOf(req.coordinate), seen)
        /\ ex_event' = [ev |-> "onDemandResolved", coordinate |-> req.coordinate]
    /\ UNCHANGED <<ex_memory, ex_moves, pfVars, flVars, rnVars, gf_ret, suVars, bxVars, ssVars, rtVars, apVars>>

\* the on-demand call fails (error response or rejected fetch): catch
OnDemandFails ==
    /\ \E req \in ex_pending :
        /\ req.kind = "onDemand"
        /\ ex_pending' = ex_pending \ {req}
        /\ ex_event' = [ev |-> "onDemandFailed", coordinate |-> req.coordinate]
    /\ UNCHANGED <<ex_memory, ex_store, ex_total, ex_session, ex_moves,
                   pfVars, flVars, rnVars, gf_ret, suVars, bxVars, ssVars, rtVars, apVars>>

\* what the two .then of a preload do with a parsed response body
PreloadStores(req, text, event) ==
    LET updated == updateGeneration(ex_memory, ex_store, req.coordinate, text)
    IN  /\ ex_store' = updated.generations
        /\ ex_total' = updated.totalGenerated
        /\ ex_session' = updated.generations
        /\ ex_pending' = ex_pending \ {req}
        /\ ex_event' = [ev |-> event, coordinate |-> req.coordinate]

\* a preload call returns a text
PreloadResolves ==
    /\ \E req \in ex_pending :
        /\ req.kind = "preload"
        /\ \E text \in GeneratorTexts(req.coordinate) :
               PreloadStores(req, text, "preloadResolved")
    /\ UNCHANGED <<ex_memory, ex_moves, pfVars, flVars, rnVars, gf_ret, suVars, bxVars, ssVars, rtVars, apVars>>

\* a preload call gets an error response (status 4xx or 5xx with a JSON body
\* { error, message }): response.ok is not looked at, result.text is undefined
PreloadErrorResponse ==
    /\ \E req \in ex_pending :
        /\ req.kind = "preload"
        /\ PreloadStores(req, Undefined, "preloadErrorResponse")
    /\ UNCHANGED <<ex_memory, ex_moves, pfVars, flVars, rnVars, gf_ret, suVars, bxVars, ssVars, rtVars, apVars>>

\* a preload fetch is rejected (network error) or its body is not JSON: catch
PreloadRejects ==
    /\ \E req \in ex_pending :
        /\ req.kind = "preload"
        /\ ex_pending' = ex_pending \ {req}
        /\ ex_event' = [ev |-> "preloadRejected", coordinate |-> req.coordinate]
    /\ UNCHANGED <<ex_memory, ex_store, ex_total, ex_session, ex_moves,
                   pfVars, flVars, rnVars, gf_ret, suVars, bxVars, ssVars, rtVars, apVars>>

\* the explore page opens on a session whose centre has been generated
InitExplore ==
    /\ pf_filters = <<>>
    /\ pf_other = <<>>
    /\ pf_cache = CacheOf({})
    /\ pf_ret = NoCall
    /\ PageIdle
    /\ RunIdle
    /\ gf_ret = NoCall
    /\ SetupIdle
    /\ BridgeExploreIdle
    /\ StoreIdle
    /\ RetryIdle
    /\ ApplyIdle
    /\ ex_memory \in BOOLEAN
    /\ ex_store = [c \in {"0,0"} |-> VariationText(c)]
    /\ ex_total = 1
    /\ ex_session = ex_store
    /\ ex_pending = {}
    /\ ex_moves = 0
    /\ ex_event = [ev |-> "mount"]

NextExplore ==
    \/ updateText
    \/ OnDemandResolves
    \/ OnDemandFails
    \/ PreloadResolves
    \/ PreloadErrorResponse
    \/ PreloadRejects

SpecExplore == InitExplore /\ [][NextExplore]_vars

---------------------------------------------------------------------------
(* The setup pages (Setup.handleSubmit, BridgeSetup.handleSubmit), the session *)
(* managers, and the generate pages' runs while sessions are replaced          *)

MinTextLength == 50

MaxTextLength == 1000

totalCoordinates == 121

totalPositions == 9

\* a text typed in a form field: a core without outer blanks, between blanks
Typed(lead, core, trail) == [lead |-> lead, core |-> core, trail |-> trail]

\* text.trim()
Trim(text) == text.core

\* text.length
Length(text) == text.lead + Len(text.core) + text.trail

TextOne == "The quick brown fox jumps over the lazy dog, twice."

TextTwo == "A slow green turtle crawls under the busy bridge now."

TextThree == "Nine bright lanterns drift across the quiet harbour."

AdjectiveInputs ==
    [yPositive |-> Typed(0, "ominous", 0),
     yNegative |-> Typed(0, "auspicious", 0),
     xPositive |-> Typed(0, "metaphorical", 0),
     xNegative |-> Typed(0, "literal", 0)]

\* what the form holds when it is submitted: one set of values, and the same
\* with one field typed differently
FormInputs(feature) ==
    IF feature = "grid"
    THEN LET form == [text |-> Typed(0, TextOne, 0), adjectives |-> AdjectiveInputs,
                      selectedModel |-> "haiku-4.5"]
         IN  { form,
               [form EXCEPT !.text = Typed(1, TextOne, 0)],
               [form EXCEPT !.text = Typed(0, TextTwo, 0)],
               [form EXCEPT !.text = Typed(0, "too short", 0)],
               [form EXCEPT !.adjectives.yPositive = Typed(0, "ominous", 1)],
               [form EXCEPT !.adjectives.xNegative = Typed(0, "plain", 0)],
               [form EXCEPT !.adjectives.xNegative = Typed(2, "", 0)],
               [form EXCEPT !.selectedModel = "gemini-2.5-flash"] }
    ELSE LET form == [textA |-> Typed(0, TextOne, 0), textB |-> Typed(0, TextTwo, 0),
                      selectedModel |-> "haiku-4.5"]
         IN  { form,
               [form EXCEPT !.textA = Typed(0, TextOne, 1)],
               [form EXCEPT !.textA = Typed(0, TextThree, 0)],
               [form EXCEPT !.textA = Typed(0, TextTwo, 0)],
               [form EXCEPT !.textB = Typed(0, "too short", 0)],
               [form EXCEPT !.selectedModel = "sonnet-4.5"] }

TextErrors(text) ==
    \/ Length(text) = 0
    \/ Len(Trim(text)) < MinTextLength
    \/ Length(text) > MaxTextLength

\* validatePromptInputs(text, adjectives).length > 0
validatePromptInputs(text, adjectives) ==
    \/ TextErrors(text)
    \/ \E a \in DOMAIN adjectives : Trim(adjectives[a]) = ""

\* validateBridgeInputs(textA, textB).length > 0
validateBridgeInputs(textA, textB) ==
    \/ TextErrors(textA)
    \/ TextErrors(textB)
    \/ (Length(textA) > 0 /\ Length(textB) > 0 /\ Trim(textA) = Trim(textB))

ValidationErrors(feature, form) ==
    IF feature = "grid"
    THEN validatePromptInputs(form.text, form.adjectives)
    ELSE validateBridgeInputs(form.textA, form.textB)

\* the trimmed values of the form
Trimmed(feature, form) ==
    IF feature = "grid"
    THEN [originalText |-> Trim(form.text),
          adjectives |-> [a \in DOMAIN form.adjectives |-> Trim(form.adjectives[a])],
          selectedModel |-> form.selectedModel]
    ELSE [textA |-> Trim(form.textA), textB |-> Trim(form.textB),
          selectedModel |-> form.selectedModel]

\* sessionManager.initSession(originalText, adjectives): a third argument is not
\* a parameter;  bridgeSessionManager.initSession(textA, textB, selectedModel)
initSession(feature, inputs) ==
    IF feature = "grid"
    THEN [originalText |-> inputs.originalText,
          adjectives |-> inputs.adjectives,
          generations |-> EmptyCache,
          status |-> "idle"]
    ELSE [textA |-> inputs.textA,
          textB |-> inputs.textB,
          selectedModel |-> inputs.selectedModel,
          positions |-> [t \in {0, 10} |-> IF t = 0 THEN inputs.textA ELSE inputs.textB],
          status |-> "idle"]

\* hasChanges of handleSubmit
hasChanges(feature, currentSession, inputs) ==
    \/ currentSession = NoSession
    \/ IF feature = "grid"
       THEN \/ currentSession.originalText # inputs.originalText
            \/ currentSession.adjectives # inputs.adjectives
            \/ Get(currentSession, "selectedModel") # inputs.selectedModel
       ELSE \/ currentSession.textA # inputs.textA
            \/ currentSession.textB # inputs.textB
            \/ Get(currentSession, "selectedModel") # inputs.selectedModel

\* session.generations / session.positions of the stored session
StoreOf(session) ==
    IF session = NoSession THEN EmptyCache
    ELSE IF su_feature = "grid" THEN session.generations
    ELSE session.positions

\* updateGeneration / updatePosition: nothing without a session
WithText(session, task, text) ==
    IF session = NoSession THEN session
    ELSE IF su_feature = "grid"
    THEN [session EXCEPT !.generations = Put(@, task, text)]
    ELSE [session EXCEPT !.positions = Put(@, task, text)]

\* updateProgress({ status }): nothing without a session
WithStatus(session, status) ==
    IF session = NoSession THEN session
    ELSE [session EXCEPT !.status = status]

\* the inputs of sessionData that the requests of a run carry
RunData(session) ==
    IF su_feature = "grid"
    THEN [originalText |-> session.originalText, adjectives |-> session.adjectives]
    ELSE [selectedModel |-> session.selectedModel]

RunModel(session) ==
    IF su_feature = "grid" THEN "none" ELSE session.selectedModel

\* the run goes on after a generateCoordinate / generatePosition ended; on the
\* bridge page the end of a round reads updatedSession.positions, which throws
\* when the session was cleared: the catch of generateBridge ends the run
DriveRun(st, session) ==
    IF /\ su_feature = "bridge"
       /\ session = NoSession
       /\ \A t \in DOMAIN st.batch : st.batch[t].phase = "done"
       /\ Len(st.rest) = 0
    THEN [st EXCEPT !.pc = "done", !.progress = "error", !.batch = EmptyCache]
    ELSE Drive(st, StoreOf(session), su_feature, st.model)

\* a run moved on: the last updateProgress of a run that ended is written
RunBecame(slot, st, session) ==
    /\ su_runs' = [su_runs EXCEPT ![slot] = st]
    /\ su_session' = IF st.pc = "done" THEN WithStatus(session, st.progress)
                     ELSE session

\* Setup.handleSubmit / BridgeSetup.handleSubmit
handleSubmit ==
    /\ su_page = "setup"
    /\ \E form \in FormInputs(su_feature) :
        LET inputs == Trimmed(su_feature, form)
        IN  IF ValidationErrors(su_feature, form)
            THEN /\ su_errors' = TRUE
                 /\ su_event' = [ev |-> "handleSubmit", inputs |-> inputs, valid |-> FALSE]
                 /\ UNCHANGED <<su_session, su_created, su_origin, su_page>>
            ELSE /\ su_errors' = FALSE
                 /\ su_event' = [ev |-> "handleSubmit", inputs |-> inputs, valid |-> TRUE]
                 /\ IF hasChanges(su_feature, su_session, inputs)
                    THEN /\ su_session' = initSession(su_feature, inputs)
                         /\ su_created' = inputs
                         /\ su_origin' = EmptyCache
                    ELSE UNCHANGED <<su_session, su_created, su_origin>>
                 /\ su_page' = "opening"
    /\ UNCHANGED <<su_feature, su_runs, su_leaves, su_responses, pfVars, flVars, rnVars, gf_ret, exVars, bxVars, ssVars, rtVars, apVars>>

\* the mount effect of Generate / BridgeGenerate, with continueGeneration /
\* generateBridge up to its first await
GenerateMount ==
    /\ su_page = "opening"
    /\ su_event' = [ev |-> "none"]
    /\ IF su_session = NoSession
       THEN /\ su_page' = "setup"
            /\ UNCHANGED <<su_session, su_runs>>
       ELSE LET existing == StoreOf(su_session)
                generated == IF su_feature = "grid" THEN DOMAIN existing
                             ELSE DOMAIN existing \ {0, 10}
                existingCount == Cardinality(generated)
                total == IF su_feature = "grid" THEN totalCoordinates ELSE totalPositions
                needsGeneration == existingCount < total /\ su_session.status # "complete"
                generating == WithStatus(su_session, "generating")
                run == [level |-> 0, rest |-> <<>>, batch |-> EmptyCache,
                        status |-> [t \in generated |-> "complete"],
                        attempts |-> EmptyCache, existing |-> existing,
                        progress |-> "generating", pc |-> "mount",
                        data |-> RunData(su_session), model |-> RunModel(su_session)]
            IN  /\ su_page' = "generate"
                /\ IF needsGeneration
                   THEN RunBecame("cur",
                                  NextLevel(run, FirstLevel(su_feature), existing,
                                            su_feature, run.model),
                                  generating)
                   ELSE /\ su_session' = IF existingCount = total
                                         THEN WithStatus(su_session, "complete")
                                         ELSE su_session
                        /\ UNCHANGED su_runs
    /\ UNCHANGED <<su_feature, su_created, su_origin, su_leaves, su_responses, su_errors,
                   pfVars, flVars, rnVars, gf_ret, exVars, bxVars, ssVars, rtVars, apVars>>

\* the page is left: its run goes on without it
PageLeft ==
    /\ su_page = "generate"
    /\ su_leaves < MaxLeaves
    /\ su_leaves' = su_leaves + 1
    /\ su_page' = "setup"
    /\ su_runs' = [cur |-> NoRun, old |-> su_runs.cur]

\* the link to the setup page (or the back button) is used
OpenSetup ==
    /\ PageLeft
    /\ su_event' = [ev |-> "none"]
    /\ UNCHANGED <<su_feature, su_session, su_created, su_origin, su_responses, su_errors,
                   pfVars, flVars, rnVars, gf_ret, exVars, bxVars, ssVars, rtVars, apVars>>

\* handleStartOver of the explore pages (reached once the centre text exists),
\* confirmed
handleStartOver ==
    /\ Truthy(StoreOf(su_session), IF su_feature = "grid" THEN "0,0" ELSE 5)
    /\ PageLeft
    /\ su_session' = NoSession
    /\ su_created' = NoCall
    /\ su_origin' = EmptyCache
    /\ su_event' = [ev |-> "none"]
    /\ UNCHANGED <<su_feature, su_responses, su_errors, pfVars, flVars, rnVars, gf_ret, exVars, bxVars, ssVars, rtVars, apVars>>

\* the generator call of a task of a run returns a text: it is written into the
\* session the store holds now.  (The generator answers every call here; failed
\* calls and retries are followed in SpecRun.)
RunAttemptSucceeds ==
    /\ su_responses < MaxResponses
    /\ su_responses' = su_responses + 1
    /\ \E slot \in {"cur", "old"} :
        /\ su_runs[slot].pc = "batch"
        /\ \E task \in DOMAIN su_runs[slot].batch :
            LET st == su_runs[slot]
                session == WithText(su_session, task, ResultText(st.batch[task].body))
            IN  /\ st.batch[task].phase = "calling"
                /\ su_origin' = IF su_session = NoSession THEN su_origin
                                ELSE Put(su_origin, task,
                                         [body |-> st.batch[task].body, data |-> st.data])
                /\ su_event' = [ev |-> "none"]
                /\ RunBecame(slot,
                             DriveRun([st EXCEPT !.batch[task].phase = "done",
                                                 !.status[task] = "complete"],
                                      session),
                             session)
    /\ UNCHANGED <<su_feature, su_created, su_page, su_leaves, su_errors,
                   pfVars, flVars, rnVars, gf_ret, exVars, bxVars, ssVars, rtVars, apVars>>

\* the delay between two batches of a run is over: next batch
RunDelayElapses ==
    /\ \E slot \in {"cur", "old"} :
        /\ su_runs[slot].pc = "delay"
        /\ su_event' = [ev |-> "none"]
        /\ RunBecame(slot,
                     DriveRun(IssueBatch(su_runs[slot], StoreOf(su_session), su_feature,
                                         su_runs[slot].model),
                              su_session),
                     su_session)
    /\ UNCHANGED <<su_feature, su_created, su_origin, su_page, su_leaves,
                   su_responses, su_errors, pfVars, flVars, rnVars, gf_ret, exVars, bxVars, ssVars, rtVars, apVars>>

\* the first visit of a setup page: nothing stored
InitSetup ==
    /\ pf_filters = <<>>
    /\ pf_other = <<>>
    /\ pf_cache = CacheOf({})
    /\ pf_ret = NoCall
    /\ PageIdle
    /\ RunIdle
    /\ gf_ret = NoCall
    /\ ExploreIdle
    /\ BridgeExploreIdle
    /\ StoreIdle
    /\ RetryIdle
    /\ ApplyIdle
    /\ su_feature \in {"grid", "bridge"}
    /\ su_session = NoSession
    /\ su_created = NoCall
    /\ su_origin = EmptyCache
    /\ su_page = "setup"
    /\ su_runs = [cur |-> NoRun, old |-> NoRun]
    /\ su_leaves = 0
    /\ su_responses = 0
    /\ su_errors = FALSE
    /\ su_event = [ev |-> "none"]

NextSetup ==
    \/ handleSubmit
    \/ GenerateMount
    \/ OpenSetup
    \/ handleStartOver
    \/ RunAttemptSucceeds
    \/ RunDelayElapses

SpecSetup == InitSetup /\ [][NextSetup]_vars

---------------------------------------------------------------------------
(* The bridge explore page (BridgeExplore) while the run of the generate page *)
(* goes on                                                                    *)

\* the positions the slider is moved to
SlideInputs == {0, 2, 5, 10}

\* no session loaded yet (useState(null))
NotLoaded == Null

updatePosition_DropsOthers(positions, position, text) ==
    [k \in {position} |-> text]

\* bridgeSessionManager.updatePosition: session.positions[position] = text
updatePosition(positions, position, text) ==
    Put(positions, position, text)

\* generateBridge(loadedSession), up to its first await
BridgeRunStarts ==
    /\ bx_run.pc = "mount"
    /\ bx_run' = NextLevel([bx_run EXCEPT !.progress = "generating"],
                           FirstLevel("bridge"), bx_store, "bridge", bx_model)
    /\ UNCHANGED <<bx_model, bx_store, bx_session, bx_pending, bx_sent, bx_moves,
                   bx_failures, pfVars, flVars, rnVars, gf_ret, exVars, suVars, ssVars, rtVars, apVars>>

\* a generator call of the run returns a text: updatePosition
BridgeAttemptSucceeds ==
    /\ bx_run.pc = "batch"
    /\ \E task \in DOMAIN bx_run.batch :
        /\ bx_run.batch[task].phase = "calling"
        /\ LET store == updatePosition(bx_store, task,
                                       ResultText(bx_run.batch[task].body))
           IN  /\ bx_store' = store
               /\ bx_run' = Drive([bx_run EXCEPT !.batch[task].phase = "done",
                                                 !.status[task] = "complete"],
                                  store, "bridge", bx_model)
    /\ UNCHANGED <<bx_model, bx_session, bx_pending, bx_sent, bx_moves, bx_failures,
                   pfVars, flVars, rnVars, gf_ret, exVars, suVars, ssVars, rtVars, apVars>>

\* a generator call of the run fails
BridgeAttemptFails ==
    /\ bx_run.pc = "batch"
    /\ bx_failures < MaxDropped
    /\ bx_failures' = bx_failures + 1
    /\ \E task \in DOMAIN bx_run.batch :
        /\ bx_run.batch[task].phase = "calling"
        /\ LET entry == AfterFailure(bx_run.batch[task])
           IN  bx_run' = Drive([bx_run EXCEPT
                                   !.batch[task] = entry,
                                   !.attempts[task].failed = @ + 1,
                                   !.status[task] = IF entry.phase = "done"
                                                    THEN "error" ELSE @],
                               bx_store, "bridge", bx_model)
    /\ UNCHANGED <<bx_model, bx_store, bx_session, bx_pending, bx_sent, bx_moves,
                   pfVars, flVars, rnVars, gf_ret, exVars, suVars, ssVars, rtVars, apVars>>

\* the backoff delay of a task of the run is over: next attempt
BridgeBackoffElapses ==
    /\ bx_run.pc = "batch"
    /\ \E task \in DOMAIN bx_run.batch :
        /\ bx_run.batch[task].phase = "backoff"
        /\ bx_run' = [bx_run EXCEPT
               !.batch[task] = [@ EXCEPT !.attempt = @ + 1, !.phase = "calling"],
               !.attempts[task].issued = @ + 1]
    /\ UNCHANGED <<bx_model, bx_store, bx_session, bx_pending, bx_sent, bx_moves,
                   bx_failures, pfVars, flVars, rnVars, gf_ret, exVars, suVars, ssVars, rtVars, apVars>>

\* the delay between two batches of the run is over: next batch
BridgeDelayElapses ==
    /\ bx_run.pc = "delay"
    /\ bx_run' = Drive(IssueBatch(bx_run, bx_store, "bridge", bx_model),
                       bx_store, "bridge", bx_model)
    /\ UNCHANGED <<bx_model, bx_store, bx_session, bx_pending, bx_sent, bx_moves,
                   bx_failures, pfVars, flVars, rnVars, gf_ret, exVars, suVars, ssVars, rtVars, apVars>>

\* the mount effect of BridgeExplore: setSession(loadSession())
BridgeExploreMount ==
    /\ bx_session = NotLoaded
    /\ bx_session' = bx_store
    /\ UNCHANGED <<bx_model, bx_store, bx_run, bx_pending, bx_sent, bx_moves, bx_failures,
                   pfVars, flVars, rnVars, gf_ret, exVars, suVars, ssVars, rtVars, apVars>>

\* handleSliderChange: updateText(position) up to its await. The cached text
\* is shown; an anchor is never generated; missing dependencies throw
handleSliderChange ==
    /\ bx_session # NotLoaded
    /\ bx_moves < MaxSlides
    /\ bx_moves' = bx_moves + 1
    /\ \E position \in SlideInputs :
        IF \/ Truthy(bx_session, position)
           \/ position = 0
           \/ position = 10
           \/ getPositionDependencies(position) = Null
           \/ ~Truthy(bx_session, getPositionDependencies(position)[1])
           \/ ~Truthy(bx_session, getPositionDependencies(position)[2])
        THEN UNCHANGED <<bx_pending, bx_sent>>
        ELSE LET body == [mode |-> "bridge",
                          textLeft |-> bx_session[getPositionDependencies(position)[1]],
                          textRight |-> bx_session[getPositionDependencies(position)[2]]]
             IN  /\ bx_pending' = bx_pending \cup {[position |-> position, body |-> body]}
                 /\ bx_sent' = bx_sent \cup
                        {[position |-> position,
                          stored |-> Truthy(bx_store, position)]}
    /\ UNCHANGED <<bx_model, bx_store, bx_session, bx_run, bx_failures,
                   pfVars, flVars, rnVars, gf_ret, exVars, suVars, ssVars, rtVars, apVars>>

\* the on-demand call returns a text: updatePosition, setSession(loadSession())
BridgeOnDemandResolves ==
    /\ \E req \in bx_pending :
        /\ bx_store' = updatePosition(bx_store, req.position, ResultText(req.body))
        /\ bx_session' = bx_store'
        /\ bx_pending' = bx_pending \ {req}
    /\ UNCHANGED <<bx_model, bx_run, bx_sent, bx_moves, bx_failures,
                   pfVars, flVars, rnVars, gf_ret, exVars, suVars, ssVars, rtVars, apVars>>

\* the on-demand call fails (error response or rejected fetch): catch
BridgeOnDemandFails ==
    /\ bx_failures < MaxDropped
    /\ bx_failures' = bx_failures + 1
    /\ \E req \in bx_pending :
        bx_pending' = bx_pending \ {req}
    /\ UNCHANGED <<bx_model, bx_store, bx_session, bx_run, bx_sent, bx_moves,
                   pfVars, flVars, rnVars, gf_ret, exVars, suVars, ssVars, rtVars, apVars>>

\* the bridge session the setup page leaves, the generate page mounted
InitBridgeExplore ==
    /\ pf_filters = <<>>
    /\ pf_other = <<>>
    /\ pf_cache = CacheOf({})
    /\ pf_ret = NoCall
    /\ PageIdle
    /\ RunIdle
    /\ gf_ret = NoCall
    /\ ExploreIdle
    /\ SetupIdle
    /\ bx_model \in BridgeModels
    /\ bx_store = [t \in {0, 10} |-> IF t = 0 THEN "A" ELSE "B"]
    /\ bx_session = NotLoaded
    /\ bx_run = [level |-> 0, rest |-> <<>>, batch |-> EmptyCache, status |-> EmptyCache,
                 attempts |-> EmptyCache, existing |-> bx_store, progress |-> "idle",
                 pc |-> "mount"]
    /\ bx_pending = {}
    /\ bx_sent = {}
    /\ bx_moves = 0
    /\ bx_failures = 0
    /\ StoreIdle
    /\ RetryIdle
    /\ ApplyIdle

NextBridgeExplore ==
    \/ BridgeRunStarts
    \/ BridgeAttemptSucceeds
    \/ BridgeAttemptFails
    \/ BridgeBackoffElapses
    \/ BridgeDelayElapses
    \/ BridgeExploreMount
    \/ handleSliderChange
    \/ BridgeOnDemandResolves
    \/ BridgeOnDemandFails

SpecBridgeExplore == InitBridgeExplore /\ [][NextBridgeExplore]_vars

---------------------------------------------------------------------------
(* The session managers (sessionManager, bridgeSessionManager,              *)
(* filterSessionManager): saveSession, loadSession, clearSession over       *)
(* sessionStorage with the memory fallback.  The three have the same code.  *)

\* the sessions saved: the generations of a grid session as it fills
DataInputs ==
    { [c \in SeqToSet(getCoordinatesUpToRing(0)) |-> VariationText(c)],
      [c \in {"0,0", "1,0"} |-> VariationText(c)],
      [c \in {"0,0", "1,0", "1,1"} |-> VariationText(c)] }

\* saveSession(data): the item is written; without sessionStorage, or when
\* setItem throws (quota), the data goes to memoryStore
saveSession ==
    /\ \E data \in DataInputs, setItemThrows \in BOOLEAN :
        /\ ss_saved' = data
        /\ ss_ret' = [op |-> "saveSession", data |-> data, val |-> TRUE]
        /\ IF ss_works /\ ~setItemThrows
           THEN /\ ss_item' = JsonRoundTrip(data)
                /\ UNCHANGED <<ss_memoryStore, ss_usingMemoryFallback>>
           ELSE /\ ss_memoryStore' = data
                /\ ss_usingMemoryFallback' = TRUE
                /\ UNCHANGED ss_item
    /\ UNCHANGED <<ss_works, ss_storageWarningShown, pfVars, flVars, rnVars, gf_ret,
                   exVars, suVars, bxVars, rtVars, apVars>>

\* what loadSession returns
loadSession(works, item, memoryStore) ==
    IF works /\ item # Null THEN item ELSE memoryStore

CallLoadSession ==
    /\ ss_ret' = [op |-> "loadSession",
                  val |-> loadSession(ss_works, ss_item, ss_memoryStore)]
    /\ UNCHANGED <<ss_works, ss_item, ss_memoryStore, ss_usingMemoryFallback,
                   ss_storageWarningShown, ss_saved, pfVars, flVars, rnVars, gf_ret,
                   exVars, suVars, bxVars, rtVars, apVars>>

\* clearSession: removeItem and the memory fallback reset
clearSession ==
    /\ ss_item' = IF ss_works THEN Null ELSE ss_item
    /\ ss_memoryStore' = Null
    /\ ss_usingMemoryFallback' = FALSE
    /\ ss_storageWarningShown' = FALSE
    /\ ss_saved' = Null
    /\ ss_ret' = [op |-> "clearSession", val |-> TRUE]
    /\ UNCHANGED <<ss_works, pfVars, flVars, rnVars, gf_ret, exVars, suVars, bxVars, rtVars, apVars>>

\* getStorageWarning: the warning once, then null
getStorageWarning ==
    /\ IF ss_usingMemoryFallback /\ ~ss_storageWarningShown
       THEN /\ ss_storageWarningShown' = TRUE
            /\ ss_ret' = [op |-> "getStorageWarning", val |-> "warning"]
       ELSE /\ ss_ret' = [op |-> "getStorageWarning", val |-> Null]
            /\ UNCHANGED ss_storageWarningShown
    /\ UNCHANGED <<ss_works, ss_item, ss_memoryStore, ss_usingMemoryFallback, ss_saved,
                   pfVars, flVars, rnVars, gf_ret, exVars, suVars, bxVars, rtVars, apVars>>

\* a new tab: nothing stored
InitStore ==
    /\ pf_filters = <<>>
    /\ pf_other = <<>>
    /\ pf_cache = CacheOf({})
    /\ pf_ret = NoCall
    /\ PageIdle
    /\ RunIdle
    /\ gf_ret = NoCall
    /\ ExploreIdle
    /\ SetupIdle
    /\ BridgeExploreIdle
    /\ ss_works \in BOOLEAN
    /\ ss_item = Null
    /\ ss_memoryStore = Null
    /\ ss_usingMemoryFallback = FALSE
    /\ ss_storageWarningShown = FALSE
    /\ ss_saved = Null
    /\ ss_ret = NoCall
    /\ RetryIdle
    /\ ApplyIdle

NextStore ==
    \/ saveSession
    \/ CallLoadSession
    \/ clearSession
    \/ getStorageWarning

SpecStore == InitStore /\ [][NextStore]_vars

---------------------------------------------------------------------------
(* One task of a generation run through the API handler: what the provider *)
(* answers, what the handler responds, what the retry loop does with it    *)

\* MODEL_CONFIGS[selectedModel].provider
ProviderOf(model) ==
    IF model = "gemini-2.5-flash" THEN "google" ELSE "anthropic"

\* what the provider answers to a call: a text, an API error (overloaded), and
\* for Gemini no candidate or a candidate with finishReason MAX_TOKENS or SAFETY
ProviderAnswers(provider) ==
    IF provider = "google"
    THEN {"text", "Overloaded", "NoCandidate", "MAX_TOKENS", "SAFETY"}
    ELSE {"text", "Overloaded"}

\* the message of the error callAnthropicAPI / callGeminiAPI throws, in words
ProviderMessage(answer) ==
    CASE answer = "MAX_TOKENS" -> <<"Gemini", "API", "hit", "token", "limit.">>
      [] answer = "SAFETY" -> <<"Gemini", "API", "blocked", "the", "content",
                                "for", "safety", "reasons.">>
      [] answer = "NoCandidate" -> <<"Invalid", "response", "from", "Gemini", "API">>
      [] OTHER -> <<"Overloaded">>

\* the response of the handler of /api/generate-single
handler(answer) ==
    IF answer = "text"
    THEN [ok |-> TRUE, status |-> 200]
    ELSE [ok |-> FALSE, status |-> 500,
          error |-> <<"Internal", "server", "error">>,
          message |-> ProviderMessage(answer)]

\* error.message in the catch block: errorData.error of the error response, or
\* the message of the rejected fetch
ClientMessage(response) ==
    IF response.status = 0 THEN <<"Failed", "to", "fetch">> ELSE response.error

\* fetch rejects: no response of the handler arrives
Rejected == [ok |-> FALSE, status |-> 0]

\* error.message?.includes(word)
Includes(message, word) == word \in SeqToSet(message)

RECURSIVE Pow2(_)

\* Math.pow(2, attempt)
Pow2(n) == IF n = 0 THEN 1 ELSE 2 * Pow2(n - 1)

\* the backoff delay of the catch block
BackoffDelay(feature, model, message, attempt) ==
    LET isOverloaded == Includes(message, "Overloaded")
        isGemini == model = "gemini-2.5-flash"
        baseDelay == IF feature = "grid"
                     THEN (IF isOverloaded THEN 5000 ELSE 1000)
                     ELSE IF isOverloaded
                     THEN (IF isGemini THEN 1000 ELSE 3000)
                     ELSE (IF isGemini THEN 300 ELSE 1000)
    IN  baseDelay * Pow2(attempt)

\* the model the handler uses: the grid page sends no selectedModel
HandlerModel(feature, model) ==
    IF feature = "grid" THEN "haiku-4.5" ELSE model

\* the provider answers the call of the attempt
RetryAttemptReturns ==
    /\ rt_entry.phase = "calling"
    /\ \E answer \in ProviderAnswers(ProviderOf(HandlerModel(rt_feature, rt_model)))
                        \cup {"rejected"} :
        LET response == IF answer = "rejected" THEN Rejected ELSE handler(answer)
        IN  IF response.ok
            THEN /\ rt_stored' = TRUE
                 /\ rt_status' = "complete"
                 /\ rt_entry' = [rt_entry EXCEPT !.phase = "done"]
                 /\ UNCHANGED <<rt_delay, rt_errors>>
            ELSE LET entry == AfterFailure(rt_entry)
                 IN  /\ rt_entry' = entry
                     /\ rt_errors' = Append(rt_errors, answer)
                     /\ rt_status' = IF entry.phase = "done" THEN "error" ELSE rt_status
                     /\ rt_delay' = IF entry.phase = "done" THEN 0
                                    ELSE BackoffDelay(rt_feature, rt_model,
                                                      ClientMessage(response),
                                                      rt_entry.attempt)
                     /\ UNCHANGED rt_stored
    /\ UNCHANGED <<rt_feature, rt_model, pfVars, flVars, rnVars, gf_ret, exVars, suVars,
                   bxVars, ssVars, apVars>>

\* the backoff delay is over: next attempt
RetryBackoffElapses ==
    /\ rt_entry.phase = "backoff"
    /\ rt_entry' = [rt_entry EXCEPT !.attempt = @ + 1, !.phase = "calling"]
    /\ rt_delay' = 0
    /\ UNCHANGED <<rt_feature, rt_model, rt_status, rt_stored, rt_errors,
                   pfVars, flVars, rnVars, gf_ret, exVars, suVars, bxVars, ssVars, apVars>>

\* the first attempt of a task of a batch is awaited
InitRetry ==
    /\ pf_filters = <<>>
    /\ pf_other = <<>>
    /\ pf_cache = CacheOf({})
    /\ pf_ret = NoCall
    /\ PageIdle
    /\ RunIdle
    /\ gf_ret = NoCall
    /\ ExploreIdle
    /\ SetupIdle
    /\ BridgeExploreIdle
    /\ StoreIdle
    /\ ApplyIdle
    /\ \/ /\ rt_feature = "grid"
          /\ rt_model = "haiku-4.5"
       \/ /\ rt_feature = "bridge"
          /\ rt_model \in BridgeModels
    /\ rt_entry = [attempt |-> 0, phase |-> "calling", body |-> NoBody]
    /\ rt_delay = 0
    /\ rt_status = "generating"
    /\ rt_stored = FALSE
    /\ rt_errors = <<>>

NextRetry ==
    \/ RetryAttemptReturns
    \/ RetryBackoffElapses

SpecRetry == InitRetry /\ [][NextRetry]_vars

---------------------------------------------------------------------------
(* Claims about the filter-chain cache (specification SpecPlan) *)

Formalize75 == [id |-> "formalize", intensity |-> 75]
Simplify50  == [id |-> "simplify",  intensity |-> 50]
Humor75     == [id |-> "humor",     intensity |-> 75]

\* the multiple of 25 nearest to an intensity
Nearest25(n) ==
    CHOOSE m \in { 25 * q : q \in 0..5 } :
        \A m2 \in { 25 * q : q \in 0..5 } :
            (IF n >= m THEN n - m ELSE m - n) <= (IF n >= m2 THEN n - m2 ELSE m2 - n)

Segment(layer) == layer.id \o "-" \o ToString(Nearest25(layer.intensity))

RECURSIVE BottomToTopKey(_)
\* the segments of a stack given top layer first, written bottom layer first
BottomToTopKey(layers) ==
    IF Len(layers) = 0 THEN "original"
    ELSE IF Len(layers) = 1 THEN Segment(layers[1])
    ELSE BottomToTopKey(Tail(layers)) \o "|" \o Segment(Head(layers))

\* layer i (0-based, top first) together with every layer below it
LayerAndBelow(layers, i) == SubSeq(layers, i + 1, Len(layers))

\* the indices (0-based, top first) of the layers whose cumulative key is cached
CachedLayers(layers, cache) ==
    { i \in 0..(Len(layers) - 1) : BottomToTopKey(LayerAndBelow(layers, i)) \in DOMAIN cache }

\* C1: plan minimality. For a stack of two enabled layers and a cache that holds
\* 'original' and the key of the bottom layer alone, calculateGenerationPlan
\* returns exactly one step, the step of the top layer, whose inputText is the
\* text cached under the bottom layer's key.
C1_PlanMinimality ==
    ( /\ pf_ret.op = "calculateGenerationPlan"
      /\ Len(pf_filters) = 2
      /\ DOMAIN pf_cache = {"original", Segment(pf_filters[2])} )
    => /\ Len(pf_ret.val) = 1
       /\ pf_ret.val[1].stepIndex = 0
       /\ pf_ret.val[1].filterId = pf_filters[1].id
       /\ pf_ret.val[1].intensity = Nearest25(pf_filters[1].intensity)
       /\ pf_ret.val[1].inputText = pf_cache[Segment(pf_filters[2])]

C1_Witness ==
    /\ pf_ret.op = "calculateGenerationPlan"
    /\ pf_filters = <<Formalize75, Simplify50>>
    /\ DOMAIN pf_cache = {"original", "simplify-50"}
    /\ Len(pf_ret.val) = 1
    /\ pf_ret.val[1].inputText = "<simplify-50>"

\* C2: plan idempotence. For every stack and every cache that contains the
\* cumulative key of every layer of the stack, calculateGenerationPlan returns
\* an empty plan; in particular a plan computed after all keys of the previous
\* plan were written has no step.
C2_PlanIdempotence ==
    ( /\ pf_ret.op = "calculateGenerationPlan"
      /\ \A i \in 0..(Len(pf_filters) - 1) :
             BottomToTopKey(LayerAndBelow(pf_filters, i)) \in DOMAIN pf_cache )
    => pf_ret.val = <<>>

\* C3: findReusableSteps returns the deepest reusable point: of the layers whose
\* cumulative key is cached, the one closest to the top of the stack, with its
\* key and cached text; 'original' with cache['original'] when none is cached.
C3_DeepestReusable ==
    pf_ret.op = "findReusableSteps" =>
        LET cached == CachedLayers(pf_filters, pf_cache)
            top == CHOOSE i \in cached : \A j \in cached : i <= j
            key == IF cached = {} THEN "original"
                   ELSE BottomToTopKey(LayerAndBelow(pf_filters, top))
        IN  /\ pf_ret.val.cacheKey = key
            /\ pf_ret.val.text = pf_cache[key]

\* C4: buildCacheKey, given the enabled layers top layer first, returns their
\* id-intensity segments joined by '|' bottom layer first, and 'original' for
\* an empty list; getCacheKeyForStep(layers, i) is the key of layer i together
\* with every layer below it.
C4_KeyIsBottomToTop ==
    /\ pf_ret.op = "buildCacheKey" => pf_ret.val = BottomToTopKey(pf_filters)
    /\ (pf_ret.op = "getCacheKeyForStep" /\ pf_ret.stepIndex >= 0)
           => pf_ret.val = BottomToTopKey(LayerAndBelow(pf_filters, pf_ret.stepIndex))

C4_Witness ==
    /\ pf_ret.op = "getCacheKeyForStep"
    /\ pf_filters = <<Humor75, Formalize75, Simplify50>>
    /\ pf_ret.stepIndex = 1
    /\ pf_ret.val = "simplify-50|formalize-75"

\* the step of a plan that applies the layer with this filter id
StepOf(plan, id) == CHOOSE n \in 1..Len(plan) : plan[n].filterId = id

HasStepOf(plan, id) == \E n \in 1..Len(plan) : plan[n].filterId = id

\* C5 as stated: for the stack [formalize-75 (top), simplify-50 (bottom)] the
\* plan step of the top layer has the cache key 'formalize-75|simplify-50', and
\* for [humor-75 (top), simplify-50 (bottom)] it has 'humor-75|simplify-50'.
C5_TopStepKeyAsStated ==
    pf_ret.op = "calculateGenerationPlan" =>
        /\ (pf_filters = <<Formalize75, Simplify50>> /\ HasStepOf(pf_ret.val, "formalize"))
               => pf_ret.val[StepOf(pf_ret.val, "formalize")].cacheKey
                      = "formalize-75|simplify-50"
        /\ (pf_filters = <<Humor75, Simplify50>> /\ HasStepOf(pf_ret.val, "humor"))
               => pf_ret.val[StepOf(pf_ret.val, "humor")].cacheKey
                      = "humor-75|simplify-50"

\* C5 amended: the plan step of the top layer has the cache key
\* 'simplify-50|formalize-75' (bottom layer first), respectively
\* 'simplify-50|humor-75'.
C5_TopStepKey ==
    pf_ret.op = "calculateGenerationPlan" =>
        /\ (pf_filters = <<Formalize75, Simplify50>> /\ HasStepOf(pf_ret.val, "formalize"))
               => pf_ret.val[StepOf(pf_ret.val, "formalize")].cacheKey
                      = "simplify-50|formalize-75"
        /\ (pf_filters = <<Humor75, Simplify50>> /\ HasStepOf(pf_ret.val, "humor"))
               => pf_ret.val[StepOf(pf_ret.val, "humor")].cacheKey
                      = "simplify-50|humor-75"

C5_Witness ==
    /\ pf_ret.op = "calculateGenerationPlan"
    /\ pf_filters = <<Humor75, Simplify50>>
    /\ DOMAIN pf_cache = {"original"}
    /\ Len(pf_ret.val) = 2
    /\ pf_ret.val[2].cacheKey = "simplify-50|humor-75"

\* C6: cache key prefix property. For two stacks whose enabled layers agree on
\* a bottom-to-top prefix of length k, the cumulative key at every shared prefix
\* length is the same string in both stacks, and a plan computed for the second
\* stack against a cache that holds the first stack's keys has no step for any
\* of the k shared layers.
C6_PrefixReuse ==
    pf_other # <<>> =>
        LET k == CommonPrefix(pf_filters, pf_other)
        IN  /\ \A j \in 1..k :
                   getCacheKeyForStep(pf_filters, Len(pf_filters) - j)
                       = getCacheKeyForStep(pf_other, Len(pf_other) - j)
            /\ ( /\ pf_ret.op = "calculateGenerationPlan"
                 /\ pf_cache = CacheOf(StepKeys(pf_other)) )
               => \A n \in 1..Len(pf_ret.val) :
                      pf_ret.val[n].stepIndex < Len(pf_filters) - k

\* the keys of a list
Listed(keys) == { keys[n] : n \in 1..Len(keys) }

\* C7: invalidation cascade. For two enabled layers, getInvalidatedCacheKeys for
\* a change at the bottom layer returns the bottom layer's key and the combined
\* key, each when it is cached; clearInvalidatedCache removes exactly the listed
\* entries, leaves the others as they were, and never removes 'original'.
C7_InvalidationCascade ==
    /\ ( /\ pf_ret.op = "getInvalidatedCacheKeys"
         /\ Len(pf_filters) = 2
         /\ pf_ret.changedIndex = 1 )
       => Listed(pf_ret.val)
              = {Segment(pf_filters[2]), BottomToTopKey(pf_filters)} \cap DOMAIN pf_cache
    /\ pf_ret.op = "clearInvalidatedCache"
       => /\ DOMAIN pf_ret.val
                 = DOMAIN pf_ret.cache \ (Listed(pf_ret.keysToInvalidate) \ {"original"})
          /\ \A k \in DOMAIN pf_ret.val : pf_ret.val[k] = pf_ret.cache[k]
          /\ pf_ret.val["original"] = OriginalText
          /\ pf_cache = pf_ret.val

C7_Witness ==
    /\ pf_ret.op = "clearInvalidatedCache"
    /\ pf_filters = <<Humor75, Simplify50>>
    /\ pf_ret.keysToInvalidate = <<"original", "simplify-50|humor-75", "simplify-50">>
    /\ DOMAIN pf_ret.cache = {"original", "simplify-50", "simplify-50|humor-75"}
    /\ DOMAIN pf_cache = {"original"}

---------------------------------------------------------------------------
(* Claims about the filter page (specification SpecFilter) *)

EditEvents == {"addLayer", "removeLayer", "toggleLayer", "changeLayerIntensity",
               "handleLayerDrop"}

RECURSIVE EnabledOnly(_)
\* the enabled layers of a stack, in stack order
EnabledOnly(layers) ==
    IF Len(layers) = 0 THEN <<>>
    ELSE IF Head(layers).enabled THEN <<Head(layers)>> \o EnabledOnly(Tail(layers))
    ELSE EnabledOnly(Tail(layers))

\* the plan computed by an edit made with only 'original' cached and two layers enabled
C8_FreshPlan ==
    (/\ fl_event.ev \in EditEvents
     /\ DOMAIN fl_session = {"original"}
     /\ Len(EnabledOnly(fl_layers)) = 2)
    => /\ Len(fl_plan) = 2
       /\ fl_plan[1].cacheKey = Segment(EnabledOnly(fl_layers)[2])
       /\ fl_plan[1].filterId = EnabledOnly(fl_layers)[2].id
       /\ fl_plan[1].inputText = OriginalText
       /\ fl_plan[2].cacheKey = BottomToTopKey(EnabledOnly(fl_layers))
       /\ fl_plan[2].filterId = EnabledOnly(fl_layers)[1].id
       /\ fl_plan[2].previousKey = fl_plan[1].cacheKey

\* while the first step is awaited, the second step still carries the text the
\* plan was built with, not a generated text
C8_NotBoundEarly ==
    (/\ fl_abort = "live"
     /\ DOMAIN fl_session = {"original"}
     /\ fl_inflight # NoTask
     /\ Len(fl_queue) = 1
     /\ fl_queue[1].previousKey = fl_inflight.cacheKey)
    => /\ fl_inflight.inputText = OriginalText
       /\ fl_queue[1].inputText = OriginalText

\* when the first step's call returns, its text is stored under the first step's
\* key, and the second step is sent to the generator with exactly that text
C8_BoundOnCompletion ==
    (/\ fl_abort = "live"
     /\ DOMAIN fl_session = {"original"}
     /\ fl_inflight # NoTask
     /\ Len(fl_queue) = 1
     /\ fl_queue[1].previousKey = fl_inflight.cacheKey
     /\ fl_session' # fl_session)
    => /\ DOMAIN fl_session' = {"original", fl_inflight.cacheKey}
       /\ fl_session'[fl_inflight.cacheKey] =
              OriginalText \o ">" \o fl_inflight.filterId \o "-"
                  \o ToString(fl_inflight.intensity)
       /\ fl_inflight' # NoTask
       /\ fl_inflight'.cacheKey = fl_queue[1].cacheKey
       /\ fl_inflight'.filterId = fl_queue[1].filterId
       /\ fl_inflight'.inputText = fl_session'[fl_inflight.cacheKey]
       /\ [cacheKey |-> fl_inflight'.cacheKey,
           inputText |-> fl_session'[fl_inflight.cacheKey],
           filterId |-> fl_inflight'.filterId,
           intensity |-> fl_inflight'.intensity] \in fl_sent'

\* C8: end-to-end late binding. With only 'original' cached and two enabled
\* layers the plan has two steps; the first has the bottom layer's key and the
\* original text as inputText; the second step's inputText is bound to the
\* first step's generated text only once the first step has completed, and that
\* generated text is what is sent to the generator for the second step.
C8_LateBinding ==
    /\ [](C8_FreshPlan /\ C8_NotBoundEarly)
    /\ [][C8_BoundOnCompletion]_vars

C8_Witness ==
    /\ fl_event.ev = "resolved"
    /\ fl_event.cacheKey = "simplify-50"
    /\ DOMAIN fl_session = {"original", "simplify-50"}
    /\ fl_session["simplify-50"] = "T>simplify-50"
    /\ fl_inflight # NoTask
    /\ fl_inflight.cacheKey = "simplify-50|humor-75"
    /\ fl_inflight.inputText = "T>simplify-50"
    /\ Len(fl_plan) = 2
    /\ [cacheKey |-> "simplify-50|humor-75", inputText |-> "T>simplify-50",
        filterId |-> "humor", intensity |-> 75] \in fl_sent

\* an edit that disables the top layer of a fully generated two-layer chain
C9_DisablesTopOfGeneratedChain ==
    /\ Len(EnabledOnly(fl_layers)) = 2
    /\ BottomToTopKey(EnabledOnly(fl_layers)) \in DOMAIN fl_session
    /\ Segment(EnabledOnly(fl_layers)[2]) \in DOMAIN fl_session
    /\ fl_edits' = fl_edits + 1
    /\ fl_event'.ev = "toggleLayer"
    /\ fl_event'.id = EnabledOnly(fl_layers)[1].id
    /\ EnabledOnly(fl_layers') = Tail(EnabledOnly(fl_layers))

\* every step of the plan belongs to an enabled layer, and its key is made of the
\* segments of the enabled layers from that layer down
C9_PlanOfEnabledLayersOnly ==
    \A n \in 1..Len(fl_plan) :
        LET enabled == EnabledOnly(fl_layers)
            i == fl_plan[n].stepIndex
        IN  /\ i \in 0..(Len(enabled) - 1)
            /\ fl_plan[n].filterId = enabled[i + 1].id
            /\ fl_plan[n].cacheKey = BottomToTopKey(LayerAndBelow(enabled, i))
            /\ fl_plan[n].previousKey = BottomToTopKey(LayerAndBelow(enabled, i + 1))

\* C9: once a two-layer chain has been fully generated, disabling the top layer
\* yields an empty plan and no generator call, because the bottom layer's key is
\* cached; disabled layers contribute no segment to a cache key and no step to
\* a plan.
C9_DisableIsFree ==
    /\ []C9_PlanOfEnabledLayersOnly
    /\ [][C9_DisablesTopOfGeneratedChain =>
              /\ fl_plan' = <<>>
              /\ fl_queue' = <<>>
              /\ fl_sent' = fl_sent
              /\ fl_session' = fl_session]_vars

C9_Witness ==
    /\ fl_event = [ev |-> "toggleLayer", id |-> "humor"]
    /\ fl_layers = <<[id |-> "humor", enabled |-> FALSE, intensity |-> 50],
                     [id |-> "simplify", enabled |-> TRUE, intensity |-> 50]>>
    /\ DOMAIN fl_session = {"original", "simplify-50", "simplify-50|humor-50"}
    /\ fl_plan = <<>>
    /\ fl_inflight = NoTask
    /\ Cardinality(fl_sent) = 2

---------------------------------------------------------------------------
(* Claims about the generate pages (specification SpecRun) *)

\* every task of a run: the coordinates of the rings generated, the positions
\* between the two anchors
C10_Tasks ==
    IF rn_feature = "grid"
    THEN { ToString(x) \o "," \o ToString(y) : x \in (0 - LastRing)..LastRing,
                                                 y \in (0 - LastRing)..LastRing }
    ELSE 1..9

\* the two positions a bridge position is blended from
C10_Parents ==
    [p \in 1..9 |->
        CASE p = 5 -> {0, 10} [] p = 2 -> {0, 5} [] p = 7 -> {5, 10}
          [] p = 1 -> {0, 2}  [] p = 3 -> {2, 5} [] p = 6 -> {5, 7}
          [] p = 8 -> {7, 10} [] p = 4 -> {3, 5} [] p = 9 -> {8, 10}]

C10_Issued(t) == IF t \in DOMAIN rn_attempts THEN rn_attempts[t].issued ELSE 0

C10_Failed(t) == IF t \in DOMAIN rn_attempts THEN rn_attempts[t].failed ELSE 0

\* a task that depends on a position that has no text
C10_Blocked(t) ==
    /\ rn_feature = "bridge"
    /\ \E d \in C10_Parents[t] : d \notin DOMAIN rn_store

\* C10: retry termination. A grid-coordinate or bridge-position task whose
\* generator call fails on every attempt is attempted exactly 3 times and is then
\* marked 'error'; no task is attempted more than 3 times; and when the run is
\* over every task that did not fail 3 times and does not depend on a position
\* without text is 'complete' with its text stored, whatever happened to the
\* other tasks of its batch or of earlier batches, rings or rounds.
C10_RetryTermination ==
    rn_pc \in {"batch", "delay", "done"} =>
        /\ \A t \in DOMAIN rn_attempts :
               /\ t \in C10_Tasks
               /\ rn_attempts[t].issued \in 1..3
               /\ rn_attempts[t].failed <= rn_attempts[t].issued
               /\ rn_attempts[t].failed = 3 => rn_status[t] = "error"
               /\ (rn_status[t] = "complete") =
                      (rn_attempts[t].failed = rn_attempts[t].issued - 1
                           /\ t \in DOMAIN rn_store)
        /\ \A t \in DOMAIN rn_status :
               rn_status[t] = "error" =>
                   \/ C10_Issued(t) = 3 /\ C10_Failed(t) = 3
                   \/ C10_Issued(t) = 0 /\ C10_Blocked(t)
        /\ rn_pc = "done" =>
               \A t \in C10_Tasks :
                   /\ t \in DOMAIN rn_status
                   /\ rn_status[t] \in {"complete", "error"}
                   /\ (C10_Failed(t) < 3 /\ ~C10_Blocked(t)) =>
                          /\ rn_status[t] = "complete"
                          /\ t \in DOMAIN rn_store

\* position 2 failed three times; position 7 of the same batch and positions 6, 8
\* and 9 of the later rounds completed
C10_Witness ==
    /\ rn_pc = "done"
    /\ rn_feature = "bridge"
    /\ rn_model = "sonnet-4.5"
    /\ DOMAIN rn_status = 1..9
    /\ {2, 7} \subseteq DOMAIN rn_attempts
    /\ rn_status[2] = "error"
    /\ rn_attempts[2] = [issued |-> 3, failed |-> 3]
    /\ \A t \in {5, 7, 6, 8, 9} : rn_status[t] = "complete" /\ t \in DOMAIN rn_store
    /\ rn_attempts[7] = [issued |-> 2, failed |-> 1]
    /\ \A t \in {1, 3, 4} : rn_status[t] = "error" /\ t \notin DOMAIN rn_attempts

---------------------------------------------------------------------------
(* Claims about failures and cancellation on the filter page (specification
   SpecFilter) *)

\* a step in which the awaited generator call of the running plan fails
C11_StepFails ==
    /\ fl_inflight # NoTask
    /\ fl_abort = "live"
    /\ fl_event'.ev = "failed"
    /\ fl_event'.cacheKey = fl_inflight.cacheKey
    /\ fl_session' = fl_session
    /\ fl_edits' = fl_edits

\* C11: when the generator call of a step fails, no step above it in the same
\* plan is dispatched to the generator: the run stops at the failed step, which
\* is the chain's failure point.
C11_FailureHaltsChain ==
    [][C11_StepFails =>
           /\ fl_sent' = fl_sent
           /\ fl_inflight' = NoTask
           /\ fl_isGenerating' = FALSE]_vars

---------------------------------------------------------------------------
(* Claims about the generator functions (specification SpecGen) *)

\* the round a position is generated in: the anchors 0, the midpoint of the
\* anchors 1, and so on
C12_RoundOf ==
    [p \in 0..10 |->
        IF p \in {0, 10} THEN 0
        ELSE IF p = 5 THEN 1
        ELSE IF p \in {2, 7} THEN 2
        ELSE IF p \in {1, 3, 6, 8} THEN 3
        ELSE 4]

\* C12: bridge dependency validity. For every derived position 1..9 both
\* positions returned by getPositionDependencies have a strictly lower round
\* (getPositionRound, 0 for the anchors) than the position itself, so a round
\* never needs a position of the same or of a later round.
C12_DependenciesInEarlierRounds ==
    /\ gf_ret.op = "getPositionRound" => gf_ret.val = C12_RoundOf[gf_ret.position]
    /\ (gf_ret.op = "getPositionDependencies" /\ gf_ret.position \in 1..9) =>
           /\ Len(gf_ret.val) = 2
           /\ \A n \in 1..2 :
                  /\ gf_ret.val[n] \in 0..10
                  /\ getPositionRound(gf_ret.val[n]) < getPositionRound(gf_ret.position)
                  /\ C12_RoundOf[gf_ret.val[n]] < C12_RoundOf[gf_ret.position]
    /\ (gf_ret.op = "getRoundPositions" /\ gf_ret.round \in 1..4) =>
           \A n \in 1..Len(gf_ret.val) :
               \A m \in 1..2 :
                   C12_RoundOf[getPositionDependencies(gf_ret.val[n])[m]] < gf_ret.round

C12_Witness ==
    /\ gf_ret.op = "getPositionDependencies"
    /\ gf_ret.position = 4
    /\ gf_ret.val = <<3, 5>>
    /\ getPositionRound(3) = 3
    /\ getPositionRound(4) = 4

---------------------------------------------------------------------------
(* Claims about the bridge run (specification SpecRun) *)

\* the bridge tasks whose generator call has been issued and not yet answered, or
\* is about to be repeated
C13_Dispatched ==
    { t \in DOMAIN rn_batch : rn_batch[t].phase \in {"calling", "backoff"} }

\* C13: in the bridge executor a generator call for position p is issued only
\* when both dependency positions of p have text in the session store, and the
\* two texts sent are the texts stored for those positions; a position with a
\* missing dependency is marked 'error' without any generator call, and the other
\* positions of the batch and of the later batches and rounds still proceed.
C13_DependenciesAtDispatch ==
    rn_feature = "bridge" =>
        /\ \A t \in C13_Dispatched :
               \E left \in C10_Parents[t], right \in C10_Parents[t] :
                   /\ left < t /\ t < right
                   /\ left \in DOMAIN rn_store /\ right \in DOMAIN rn_store
                   /\ rn_batch[t].body.textLeft = rn_store[left]
                   /\ rn_batch[t].body.textRight = rn_store[right]
        /\ \A t \in DOMAIN rn_attempts :
               \A d \in C10_Parents[t] : d \in DOMAIN rn_store
        /\ \A t \in DOMAIN rn_status :
               (\E d \in C10_Parents[t] : d \notin DOMAIN rn_store) =>
                   /\ rn_status[t] \in {"pending", "error"}
                   /\ t \notin DOMAIN rn_attempts
                   /\ t \notin C13_Dispatched
        /\ rn_pc = "done" =>
               \A t \in 1..9 :
                   /\ t \in DOMAIN rn_status
                   /\ (\A d \in C10_Parents[t] : d \in DOMAIN rn_store) =>
                          C10_Issued(t) >= 1

\* position 3 lacks the text of position 2 and is 'error' without a call, while
\* position 6 of the same round is being generated from the stored texts of 5 and 7
C13_Witness ==
    /\ rn_feature = "bridge"
    /\ rn_model = "gemini-2.5-flash"
    /\ rn_pc = "batch"
    /\ 2 \notin DOMAIN rn_store
    /\ DOMAIN rn_batch = {1, 3, 6, 8}
    /\ rn_status[3] = "error" /\ 3 \notin DOMAIN rn_attempts
    /\ rn_status[1] = "error" /\ 1 \notin DOMAIN rn_attempts
    /\ rn_batch[6].phase = "calling"
    /\ rn_batch[6].body.textLeft = rn_store[5]
    /\ rn_batch[6].body.textRight = rn_store[7]
    /\ rn_store[5] = "(A+B)"
    /\ rn_store[7] = "((A+B)+B)"

\* the name of the coordinate (x, y)
C14_Name(x, y) == ToString(x) \o "," \o ToString(y)

\* the coordinates at distance r from the centre: max(|x|, |y|) = r
C14_Ring(r) ==
    { C14_Name(x, y) : x \in {0 - r, r}, y \in (0 - r)..r }
        \cup { C14_Name(x, y) : x \in (0 - r)..r, y \in {0 - r, r} }

C14_Grid == { C14_Name(x, y) : x \in -5..5, y \in -5..5 }

C14_Sizes == <<1, 8, 16, 24, 32, 40>>

C14_NoRepeat(q) == \A n, m \in 1..Len(q) : q[n] = q[m] => n = m

\* C14: ring completeness. For rings 0..5 getRingCoordinates returns pairwise
\* disjoint sets of sizes 1, 8, 16, 24, 32, 40 whose union is the 121
\* coordinates of [-5,5] x [-5,5]; every coordinate c is a member of
\* getRingCoordinates(getRingNumber(c)); getAllCoordinates lists each of the 121
\* coordinates exactly once, in ring order.
C14_RingCompleteness ==
    /\ gf_ret.op = "getRingCoordinates" =>
           /\ Len(gf_ret.val) = C14_Sizes[gf_ret.ringNumber + 1]
           /\ C14_NoRepeat(gf_ret.val)
           /\ SeqToSet(gf_ret.val) = C14_Ring(gf_ret.ringNumber)
           /\ \A other \in 0..5 :
                  other # gf_ret.ringNumber =>
                      SeqToSet(gf_ret.val) \cap SeqToSet(getRingCoordinates(other)) = {}
           /\ \A c \in SeqToSet(gf_ret.val) : c \in C14_Grid
    /\ gf_ret.op = "getRingNumber" =>
           /\ gf_ret.coordinate \in C14_Grid
           /\ gf_ret.val \in 0..5
           /\ gf_ret.coordinate \in SeqToSet(getRingCoordinates(gf_ret.val))
    /\ gf_ret.op = "getAllCoordinates" =>
           /\ Len(gf_ret.val) = 121
           /\ C14_NoRepeat(gf_ret.val)
           /\ SeqToSet(gf_ret.val) = C14_Grid
           /\ SeqToSet(gf_ret.val) = UNION { SeqToSet(getRingCoordinates(r)) : r \in 0..5 }
           /\ \A n, m \in 1..121 :
                  n < m => \E r1, r2 \in 0..5 :
                               /\ r1 <= r2
                               /\ gf_ret.val[n] \in C14_Ring(r1)
                               /\ gf_ret.val[m] \in C14_Ring(r2)

C14_Witness ==
    /\ gf_ret.op = "getRingNumber"
    /\ gf_ret.coordinate = "-3,5"
    /\ gf_ret.val = 5
    /\ Len(getRingCoordinates(5)) = 40
    /\ Len(getAllCoordinates) = 121

\* the rounds of the bridge as the spec gives them
C15_Rounds == <<{5}, {2, 7}, {1, 3, 6, 8}, {4, 9}>>

\* C15: getRoundPositions(1..4) returns {5}, {2,7}, {1,3,6,8}, {4,9}, pairwise
\* disjoint sets whose union is the derived positions 1..9; getPositionRound(p) = r
\* exactly when p is in getRoundPositions(r), and is 0 for the anchors 0 and 10;
\* getTotalPositionsUpToRound(r) is the number of positions in rounds 1..r.
C15_RoundsPartitionPositions ==
    /\ (gf_ret.op = "getRoundPositions" /\ gf_ret.round \in 1..4) =>
           /\ SeqToSet(gf_ret.val) = C15_Rounds[gf_ret.round]
           /\ Len(gf_ret.val) = Cardinality(C15_Rounds[gf_ret.round])
           /\ \A other \in 1..4 :
                  other # gf_ret.round =>
                      SeqToSet(gf_ret.val) \cap SeqToSet(getRoundPositions(other)) = {}
           /\ UNION { SeqToSet(getRoundPositions(r)) : r \in 1..4 } = 1..9
    /\ gf_ret.op = "getPositionRound" =>
           /\ gf_ret.position \in {0, 10} => gf_ret.val = 0
           /\ \A r \in 1..4 :
                  (gf_ret.val = r) = (gf_ret.position \in SeqToSet(getRoundPositions(r)))
           /\ gf_ret.position \in 1..9 => gf_ret.val \in 1..4
    /\ (gf_ret.op = "getTotalPositionsUpToRound" /\ gf_ret.round \in 0..4) =>
           gf_ret.val = Cardinality(UNION { C15_Rounds[r] : r \in 1..gf_ret.round })
    /\ (gf_ret.op = "getTotalPositionsUpToRound" /\ gf_ret.round \in 0..4) =>
           gf_ret.val = Cardinality({ p \in 1..9 : getPositionRound(p) <= gf_ret.round })

C15_Witness ==
    /\ gf_ret.op = "getTotalPositionsUpToRound"
    /\ gf_ret.round = 3
    /\ gf_ret.val = 7
    /\ getRoundPositions(3) = <<1, 3, 6, 8>>
    /\ getPositionRound(8) = 3

\* C16: cancellation then dispatch. When a new plan is issued while a generator
\* call is in flight, that call is cancelled and the new plan is then dispatched:
\* once the cancelled call has ended, a step of the newest plan is with the
\* generator unless every step has been sent or found cached, so no step is left
\* waiting for a further user action.
C16_NewPlanDispatched ==
    fl_inflight = NoTask => Len(fl_queue) = 0

\* a plan has been superseded while its generator call was in flight
C17_Superseded == fl_inflight # NoTask /\ fl_abort = "aborted"

\* C17: after a new plan supersedes a running one the previous plan has no
\* further effect: none of its waiting tasks is dispatched (no request is sent
\* while the superseded call is pending or when it ends) and the result of its
\* aborted call is written neither to the component cache nor to the session
\* store.
C17_SupersededPlanHasNoEffect ==
    /\ [](C17_Superseded =>
              /\ fl_inflight.cacheKey \notin DOMAIN fl_session
              /\ fl_inflight.cacheKey \notin DOMAIN fl_cache)
    /\ [][C17_Superseded =>
              /\ fl_session' = fl_session
              /\ fl_sent' = fl_sent
              /\ fl_cache' \in {fl_cache, fl_session}
              /\ fl_inflight' \in {fl_inflight, NoTask}
              /\ fl_inflight' = NoTask =>
                     /\ fl_queue' = fl_queue
                     /\ fl_cache' = fl_cache]_vars

C17_Witness ==
    /\ fl_event = [ev |-> "aborted", cacheKey |-> "simplify-50"]
    /\ fl_inflight = NoTask
    /\ Len(fl_queue) = 2
    /\ DOMAIN fl_session = {"original"}
    /\ DOMAIN fl_cache = {"original"}
    /\ fl_sent = {[cacheKey |-> "simplify-50", inputText |-> "T",
                   filterId |-> "simplify", intensity |-> 50]}

---------------------------------------------------------------------------
(* Claims about the explore page (specification SpecExplore) *)

\* a step in which a generator call of the explore page ends in failure
C18_AttemptFails ==
    /\ ex_event'.ev \in {"onDemandFailed", "preloadErrorResponse", "preloadRejected"}
    /\ ex_pending' # ex_pending
    /\ ex_pending' \subseteq ex_pending

\* C18: a failed generation never stores anything. An attempt that ends in an
\* error response, a thrown error or a rejected validation adds no cache entry
\* and changes none: the session store holds exactly what it held before.
C18_FailedAttemptStoresNothing ==
    [][C18_AttemptFails =>
           /\ ex_store' = ex_store
           /\ ex_total' = ex_total
           /\ ex_session' = ex_session]_vars

---------------------------------------------------------------------------
(* Claims about session replacement (specification SpecSetup) *)

\* the request that returned the stored text of a task carried the inputs of the
\* stored session: its text and adjectives for the grid; for the bridge its model
\* and the two texts the store holds for the dependencies of the task
C19_FromStoredInputs(task) ==
    IF su_feature = "grid"
    THEN /\ su_origin[task].data.originalText = su_session.originalText
         /\ su_origin[task].data.adjectives = su_session.adjectives
    ELSE /\ su_origin[task].data.selectedModel = su_session.selectedModel
         /\ su_origin[task].body.textLeft =
                Get(StoreOf(su_session), getPositionDependencies(task)[1])
         /\ su_origin[task].body.textRight =
                Get(StoreOf(su_session), getPositionDependencies(task)[2])

\* C19: cache entries are never reused across different source texts. Once a
\* grid or bridge session has been cleared or re-initialised with different
\* inputs, its store never contains a text generated from the previous
\* session's inputs, also not from a call that was in flight or queued when the
\* session was replaced.
C19_NoTextOfPreviousInputs ==
    su_session # NoSession =>
        \A task \in DOMAIN su_origin : C19_FromStoredInputs(task)

\* a step in which a valid setup form is submitted
C20_Submitted == su_page = "setup" /\ su_page' = "opening"

\* C20: on setup submission the stored session is discarded and recreated with
\* an empty cache if and only if the submitted text(s), adjectives or model
\* differ from those the stored session was created from; submitting identical
\* inputs leaves the session and every cached entry unchanged.
C20_RecreatedIffInputsDiffer ==
    [][C20_Submitted =>
           IF su_session # NoSession /\ su_event'.inputs = su_created
           THEN su_session' = su_session
           ELSE su_session' = initSession(su_feature, su_event'.inputs)]_vars

---------------------------------------------------------------------------
(* Claims about the bridge explore page (specification SpecBridgeExplore) *)

\* C21: in every reachable state of a bridge session position 0 holds textA
\* and position 10 holds textB as supplied at initSession; no generation round,
\* retry or on-demand request issues a generator call for position 0 or 10,
\* overwrites them or removes them.
C21_AnchorsVerbatim ==
    bx_model # "none" =>
        /\ Get(bx_store, 0) = "A"
        /\ Get(bx_store, 10) = "B"
        /\ DOMAIN bx_run.batch \cap {0, 10} = {}
        /\ DOMAIN bx_run.attempts \cap {0, 10} = {}
        /\ \A req \in bx_pending \cup bx_sent : req.position \notin {0, 10}
        /\ bx_session # NotLoaded =>
               /\ Get(bx_session, 0) = "A"
               /\ Get(bx_session, 10) = "B"

\* the run has ended after a retry, with every position generated, and the
\* slider was moved with an on-demand request
C21_Witness ==
    /\ bx_model # "none"
    /\ bx_run.pc = "done"
    /\ bx_failures > 0
    /\ \E p \in DOMAIN bx_run.attempts : bx_run.attempts[p].issued > 1
    /\ DOMAIN bx_store = 0..10
    /\ bx_sent # {}
    /\ bx_moves = MaxSlides

\* C23: on-demand and prefetch requests use cache-or-generate semantics: a
\* generator call for a grid coordinate or bridge position is issued only if
\* that key has no text in the session store at the time of the request.
C23_CacheOrGenerate ==
    \A req \in bx_sent : ~req.stored

---------------------------------------------------------------------------
(* Claims about the session managers (specification SpecStore) *)

\* C22: read-your-writes under degradation. Whether sessionStorage is
\* available, unavailable or throws on a particular write, loadSession called
\* after saveSession(d) returns d, the most recently saved session, never an
\* older one, and loadSession called after clearSession returns null.
C22_ReadYourWrites ==
    ss_ret.op = "loadSession" => ss_ret.val = ss_saved

---------------------------------------------------------------------------
(* Claims about the retry loop (specification SpecRetry) *)

\* C24: a task whose generator call fails with SafetyBlocked or
\* TokenLimitExceeded is terminal: it is not retried, and it is marked 'error'
\* after that single attempt.
C24_TerminalErrorsNotRetried ==
    \A n \in 1..Len(rt_errors) :
        rt_errors[n] \in {"SAFETY", "MAX_TOKENS"} =>
            /\ n = Len(rt_errors)
            /\ rt_entry.phase = "done"
            /\ rt_status = "error"

---------------------------------------------------------------------------
(* Claims about the validation of layers (specification SpecPlan) *)

\* the layer has an intensity that is 0, above 100 or not a multiple of 25
C25_InvalidIntensity(f) == f.intensity \notin {25, 50, 75, 100}

\* C25: buildCacheKey and calculateGenerationPlan reject a layer whose intensity
\* is 0, greater than 100 or not a multiple of 25 with InvalidIntensity (and an
\* unknown filterId with UnknownFilter) instead of producing a cache key or a
\* plan step for it.
C25_InvalidLayerRejected ==
    /\ (/\ pf_ret.op = "buildCacheKey"
        /\ \E n \in 1..Len(pf_filters) : C25_InvalidIntensity(pf_filters[n]))
       => pf_ret.val = "InvalidIntensity"
    /\ pf_ret.op = "calculateGenerationPlan"
       => \A n \in 1..Len(pf_ret.val) : ~C25_InvalidIntensity(At(pf_filters, pf_ret.val[n].stepIndex))

---------------------------------------------------------------------------
(* Claims about the filter stack page (specification SpecApply) *)

\* C26: immediately before a filter task is dispatched the cache is re-read; no
\* filter generator call is made for a key that is in the session store at
\* dispatch time.
C26_NoCallForStoredKey ==
    ap_last # NoTask => ~ap_last.stored

\* C28: each successful filter step's text is written to the cache and to the
\* session store under the step's key before the next step and stays there; when a
\* run ends, the session store's cache holds an entry for every step that
\* succeeded during the run.
C28_SucceededStepsStored ==
    ap_event.ev \in {"resolved", "completed", "failed"} =>
        \A key \in ap_done : Truthy(ap_store, key)

---------------------------------------------------------------------------
(* Claims about the steps sent by the filter page (specification SpecFilter) *)

\* C27: whenever the filter executor sends a step to the generator, the inputText
\* sent is the text cached under the step's previousKey (the original text for
\* 'original'), also when an earlier step of the plan was skipped or failed.
C27_InputIsCachedPrevious ==
    fl_inflight # NoTask =>
        fl_inflight.inputText = Get(fl_session, fl_inflight.previousKey)

\* C29: at most one filter-step generator call is in flight at any time, whatever
\* layer edits occur during generation: a call is dispatched while another is
\* pending only in the step in which the pending call settles.
C29_OneCallInFlight ==
    [][(fl_inflight # NoTask /\ fl_inflight' \notin {NoTask, fl_inflight})
          => fl_event'.ev \in {"resolved", "failed"}]_vars

\* the stack was edited while a call was pending, and the new plan has steps
C29_Witness ==
    /\ fl_inflight # NoTask
    /\ fl_abort = "aborted"
    /\ Len(fl_queue) > 0

---------------------------------------------------------------------------
(* Claims about the calls in flight of a generation run (specification SpecSetup) *)

\* the batch size the claim states
C30_BatchSize(feature, model) ==
    IF feature = "grid" THEN 2
    ELSE CASE model = "haiku-4.5" -> 1
           [] model = "sonnet-4.5" -> 2
           [] model = "gemini-2.5-flash" -> 4

\* the generator calls a run is awaiting
C30_InFlight(run) ==
    IF run.pc = "none" THEN {}
    ELSE { t \in DOMAIN run.batch : run.batch[t].phase = "calling" }

\* C30: during a generation run the number of generator calls in flight never
\* exceeds the batch size: 2 for grid ring batches, and 1, 2 or 4 for bridge
\* rounds with haiku-4.5, sonnet-4.5 and gemini-2.5-flash.
C30_CallsWithinBatchSize ==
    su_runs.cur.pc # "none" =>
        Cardinality(C30_InFlight(su_runs.cur)) + Cardinality(C30_InFlight(su_runs.old))
            <= C30_BatchSize(su_feature, su_runs.cur.model)

---------------------------------------------------------------------------
(* Claims about the order of the rings (specification SpecRun) *)

\* the coordinates of the rings before ring n
C31_InnerRings(n) == UNION { SeqToSet(getRingCoordinates(m)) : m \in 0..(n - 1) }

\* the task was attempted to its end: its text is stored, or it failed 3 times
C31_Ended(t) ==
    /\ t \in DOMAIN rn_status
    /\ \/ rn_status[t] = "complete" /\ Truthy(rn_store, t)
       \/ rn_status[t] = "error" /\ AttemptsOf(rn_attempts, t).failed = 3

\* C31: in the grid run a call for a coordinate of ring N is dispatched only after
\* every missing coordinate of rings 0..N-1 has been attempted to its end (success
\* or 3 failed attempts), and failures in a ring do not stop the later rings: at
\* the end of the run every coordinate was dispatched.
C31_RingsInOrder ==
    rn_feature = "grid" =>
        /\ \A n \in 0..LastRing :
               \A t \in DOMAIN rn_batch \cap SeqToSet(getRingCoordinates(n)) :
                   \A u \in C31_InnerRings(n) : C31_Ended(u)
        /\ rn_pc = "done" =>
               \A u \in C31_InnerRings(LastRing + 1) :
                   AttemptsOf(rn_attempts, u).issued >= 1

\* the centre failed three times and a coordinate of ring 1 is being called
C31_Witness ==
    /\ rn_feature = "grid"
    /\ "0,0" \in DOMAIN rn_status
    /\ rn_status["0,0"] = "error"
    /\ \E t \in DOMAIN rn_batch :
           /\ t \in SeqToSet(getRingCoordinates(1))
           /\ rn_batch[t].phase = "calling"

---------------------------------------------------------------------------
(* Claims about concurrent writers of one key (specification SpecExplore) *)

\* C32: when an on-demand generation races with a prefetch for the same grid
\* coordinate, the text already present in the session store under that
\* coordinate is not overwritten by the call that finishes later: every step
\* leaves each present entry of the store as it was.
C32_PresentEntryNotOverwritten ==
    [][\A c \in DOMAIN ex_store :
           Truthy(ex_store, c) =>
               /\ c \in DOMAIN ex_store'
               /\ ex_store'[c] = ex_store[c]]_vars

---------------------------------------------------------------------------
(* Claims about the status of the tasks of a run (specification SpecRun) *)

\* the status of a task, "none" before the run has marked it
C33_StatusOf(status, t) == IF t \in DOMAIN status THEN status[t] ELSE "none"

---------------------------------------------------------------------------
(* Claims about the back-off of the retry loop (specification SpecRetry) *)

\* the base delay the catch block chooses after a generic failure
C34_GenericBase ==
    IF rt_feature = "bridge" /\ rt_model = "gemini-2.5-flash" THEN 300 ELSE 1000

\* C34: when an attempt failed because the provider reported overload, and the
\* failure reached the client through the error response of the handler, the
\* delay before the retry has a base strictly larger than the base after a
\* generic failure (5000 against 1000 for the grid, 3000 against 1000 for the
\* bridge, 1000 against 300 with gemini-2.5-flash), doubled with each attempt.
C34_OverloadBackoffLarger ==
    /\ rt_entry.phase = "backoff"
    /\ rt_errors[Len(rt_errors)] = "Overloaded"
    => /\ rt_delay > C34_GenericBase * Pow2(rt_entry.attempt)
       /\ rt_delay = Pow2(rt_entry.attempt)
                       * (IF rt_feature = "grid" THEN 5000
                          ELSE IF rt_model = "gemini-2.5-flash" THEN 1000
                          ELSE 3000)

---------------------------------------------------------------------------
(* Claims about the validation of requests (specification SpecHandler) *)

\* the coordinate is an integer pair inside [-5,5] x [-5,5]
C35_WellFormed(coordinate) ==
    LET parts == Split(coordinate, ",")
    IN  /\ Len(parts) = 2
        /\ \A n \in 1..2 :
               /\ Len(parts[n]) > 0
               /\ ~JsNumber(parts[n]).nan
               /\ Abs(JsNumber(parts[n]).val) <= GridRadius

\* the fields the mode of the body requires
C35_Required(body) ==
    IF Get(body, "mode") = "filter" THEN {"inputText", "filterId", "intensity"}
    ELSE IF Get(body, "mode") = "bridge" THEN {"textLeft", "textRight"}
    ELSE {"text", "adjectives", "coordinate"}

\* the request is invalid in one of the ways the handler is to reject
C35_Invalid(method, body, keys) ==
    \/ method # "POST"
    \/ /\ "selectedModel" \in DOMAIN body
       /\ ModelConfigs(body.selectedModel) = Undefined
    \/ ModelConfigs(IF "selectedModel" \in DOMAIN body THEN body.selectedModel
                    ELSE "haiku-4.5") \notin keys
    \/ ~(C35_Required(body) \subseteq DOMAIN body)
    \/ /\ "intensity" \in DOMAIN body
       /\ body.intensity \notin {25, 50, 75, 100}
    \/ /\ "filterId" \in DOMAIN body
       /\ body.filterId \notin FilterIds
    \/ /\ Get(body, "mode") \notin {"filter", "bridge"}
       /\ "coordinate" \in DOMAIN body
       /\ ~C35_WellFormed(body.coordinate)

\* C35: the handler makes no provider call and answers with an error status
\* when the method is not POST, the model is unknown, the credentials of the
\* selected provider are absent, a field the mode requires is missing, the
\* filter intensity is not one of 25, 50, 75, 100, the filterId is unknown, or
\* the coordinate is not an integer pair inside [-5,5] x [-5,5].
C35_InvalidRequestsRejected ==
    /\ gf_ret.op = "handler"
    /\ C35_Invalid(gf_ret.method, gf_ret.body, gf_ret.keys)
    => /\ ~gf_ret.val.called
       /\ gf_ret.val.status >= 400

---------------------------------------------------------------------------
(* Claims about the progress of a session (specification SpecRun) *)

\* the derived keys of the feature: the coordinates of the rings 0..LastRing, or
\* the positions of the rounds 1..LastRound
C36_DerivedKeys ==
    UNION { SeqToSet(LevelTasks(rn_feature, level)) :
                level \in FirstLevel(rn_feature)..LastLevel(rn_feature) }

\* C36: whenever progress.status of the session is 'complete', every derived
\* key of the feature (every coordinate of the grid, every position 1..9 of the
\* bridge) has text in the session store.
C36_CompleteMeansAllStored ==
    rn_progress = "complete" => \A t \in C36_DerivedKeys : Truthy(rn_store, t)

---------------------------------------------------------------------------
(* Claims about the dependencies of stored positions (specification SpecSetup) *)

\* C37: in every state of a bridge session, from its initSession to the next
\* clear or re-initialisation, every derived position that has text in the
\* session store has both of its dependency positions with text in the store.
C37_DependencyClosure ==
    su_feature = "bridge" /\ su_session # NoSession =>
        \A p \in DOMAIN StoreOf(su_session) :
            Truthy(StoreOf(su_session), p) /\ getPositionDependencies(p) # Null =>
                /\ Truthy(StoreOf(su_session), getPositionDependencies(p)[1])
                /\ Truthy(StoreOf(su_session), getPositionDependencies(p)[2])

---------------------------------------------------------------------------
(* Claims about the dependency waves of the bridge (specification SpecGen) *)

RECURSIVE C38_Available(_)
\* the store after n waves: the anchors, then every position returned by
\* getNextGenerablePositions added, n times
C38_Available(n) ==
    IF n = 0 THEN {0, 10}
    ELSE C38_Available(n - 1)
             \cup SeqToSet(getNextGenerablePositions(C38_Available(n - 1)))

C38_Waves == << <<5>>, <<2, 7>>, <<1, 3, 6, 8>>, <<4, 9>>, <<>> >>

\* C38: rounds are dependency waves. From a store holding only the anchors,
\* adding every returned position each time, getNextGenerablePositions returns
\* [5], [2,7], [1,3,6,8], [4,9] and then the empty list; the round of a position
\* is 1 plus the larger round of its two dependencies; and no returned position
\* is already in the store or lacks one of its dependencies there.
C38_RoundsAreWaves ==
    /\ gf_ret.op = "getNextGenerablePositions" =>
           /\ \A n \in 0..4 :
                  gf_ret.availablePositions = C38_Available(n) =>
                      gf_ret.val = C38_Waves[n + 1]
           /\ \A n \in 1..Len(gf_ret.val) :
                  /\ gf_ret.val[n] \notin gf_ret.availablePositions
                  /\ getPositionDependencies(gf_ret.val[n])[1] \in gf_ret.availablePositions
                  /\ getPositionDependencies(gf_ret.val[n])[2] \in gf_ret.availablePositions
    /\ gf_ret.op = "getPositionRound" /\ gf_ret.position \in 1..9 =>
           gf_ret.val = 1 + Max(getPositionRound(getPositionDependencies(gf_ret.position)[1]),
                                getPositionRound(getPositionDependencies(gf_ret.position)[2]))

\* the call after the third wave returns the last one
C38_Witness ==
    /\ gf_ret.op = "getNextGenerablePositions"
    /\ gf_ret.availablePositions = C38_Available(3)
    /\ gf_ret.availablePositions = {0, 1, 2, 3, 5, 6, 7, 8, 10}
    /\ gf_ret.val = <<4, 9>>

---------------------------------------------------------------------------
(* Claims about the end of a run (specification SpecRunFair) *)

\* the run is over: every task of the feature is 'complete' or 'error' and the
\* progress status is 'complete'
C39_Ended ==
    /\ rn_pc = "done"
    /\ rn_progress = "complete"
    /\ \A t \in C36_DerivedKeys :
           /\ t \in DOMAIN rn_status
           /\ rn_status[t] \in {"complete", "error"}

\* C39: provided each generator call eventually returns or fails, every grid or
\* bridge run terminates: each missing task is attempted at most 3 times, every
\* task ends in 'complete' or 'error', and the run then sets progress.status to
\* 'complete'.
C39_RunTerminates ==
    /\ [](\A t \in DOMAIN rn_attempts : rn_attempts[t].issued <= maxRetries)
    /\ <>C39_Ended

\* a run that ended after one task had failed three times and another had
\* succeeded on its second attempt
C39_Witness ==
    /\ C39_Ended
    /\ \E t \in DOMAIN rn_attempts :
           rn_attempts[t].failed = maxRetries /\ rn_status[t] = "error"
    /\ \E t \in DOMAIN rn_attempts :
           rn_attempts[t].issued = 2 /\ rn_status[t] = "complete"

---------------------------------------------------------------------------
(* Claims about the order of the filter stack (specification SpecApply) *)

\* C40: after any sequence of enable, disable and reorder operations the order
\* values of the n enabled filters are exactly 0..n-1 without duplicates, and
\* every disabled filter has order null.
C40_OrdersAreZeroToN ==
    /\ { ap_filters[f].order : f \in Enabled(ap_filters) }
           = 0..(Cardinality(Enabled(ap_filters)) - 1)
    /\ \A f \in DOMAIN ap_filters :
           ~ap_filters[f].enabled => ap_filters[f].order = NullOrder

=============================================================================
